---- MODULE Spec2Model ----
(***************************************************************************)
(* Stripe -> SES webhook mailer (src/index.js and src/src/renderEmail.js). *)
(*                                                                         *)
(* Strings are sequences of one-character strings, so that trim,           *)
(* toLowerCase and the regular-expression tests of the source are computed *)
(* and not assumed.  JavaScript values are records tagged by their typeof. *)
(***************************************************************************)
EXTENDS Integers, Sequences, FiniteSets, TLC

VARIABLES
    env,        \* process.env, read once at start-up or per call
    now,        \* Date.now()
    suppressed, \* index.js: const suppressed = new Map()  (email -> firstSeenTs)
    pc,         \* per handler: the await it is suspended at
    ev,         \* per handler: the inbound event (index into Events), 0 when idle
    hs,         \* per handler: locals of the async handler (inv, customerObj, to, brand, ...)
    log,        \* per handler: the remote calls and decisions made for the event, in order
    resp,       \* per handler: the HTTP response sent (NullV while none)
    nEvents,    \* events received so far
    nTicks,     \* clock advances so far
    noted,      \* history: per cause, address -> time the cause last occurred for it
    arg,        \* input of the pure function under test
    ret         \* its result (NullV until applied)

vars == <<env, now, suppressed, pc, ev, hs, log, resp, nEvents, nTicks, noted, arg, ret>>

-----------------------------------------------------------------------------
(* JavaScript values *)

NullV == [t |-> "null"]
Undef == [t |-> "undefined"]
Str(s) == [t |-> "string", s |-> s]
Num(n) == [t |-> "number", n |-> n]

\* a function object (Object, Object.prototype.toString, ...)
Fn(name) == [t |-> "function", name |-> name]

IsStr(v) == v.t = "string"

\* ToBoolean
Truthy(v) ==
    CASE v.t = "string" -> v.s # <<>>
      [] v.t = "number" -> v.n # 0
      [] v.t = "object" -> TRUE
      [] v.t = "function" -> TRUE
      [] OTHER -> FALSE

\* the call threw: the exception, by its name or message
Throws(why) == [k |-> "throw", why |-> why]

\* a || b
JsOr(a, b) == IF Truthy(a) THEN a ELSE b

\* a ?? b
JsNullish(a, b) == IF a.t \in {"null", "undefined"} THEN b ELSE a

-----------------------------------------------------------------------------
(* String primitives: String.prototype.trim, toLowerCase, RegExp tests.       *)
(* A character is a UTF-16 code unit: an ASCII character stands for itself,  *)
(* any other unit is written "U+XXXX".                                       *)

UpperChars == <<"A","B","C","D","E","F","G","H","I","J","K","L","M",
                "N","O","P","Q","R","S","T","U","V","W","X","Y","Z">>
LowerChars == <<"a","b","c","d","e","f","g","h","i","j","k","l","m",
                "n","o","p","q","r","s","t","u","v","w","x","y","z">>

\* WhiteSpace and LineTerminator of ECMAScript: what trim removes and \s matches
WhiteSpace ==
    { " ", "\t", "\n", "\r", "\f", "U+000B", "U+00A0", "U+1680", "U+2000", "U+2001", "U+2002",
      "U+2003", "U+2004", "U+2005", "U+2006", "U+2007", "U+2008", "U+2009", "U+200A", "U+2028",
      "U+2029", "U+202F", "U+205F", "U+3000", "U+FEFF" }

UpperSet == {UpperChars[i] : i \in 1..Len(UpperChars)}
LowerSet == {LowerChars[i] : i \in 1..Len(LowerChars)}
LowerOf == [c \in UpperSet |-> LowerChars[CHOOSE i \in 1..Len(UpperChars) : UpperChars[i] = c]]
UpperOf == [c \in LowerSet |-> UpperChars[CHOOSE i \in 1..Len(LowerChars) : LowerChars[i] = c]]

\* the concatenation of the pieces of a template literal
RECURSIVE Cat(_)
Cat(parts) == IF parts = <<>> THEN <<>> ELSE Head(parts) \o Cat(Tail(parts))

\* the lower-case mappings of the characters above U+007F (Unicode 17, Basic
\* Multilingual Plane) that lower to one such character: each character is
\* followed by the one it lowers to
LowerPairs ==
    "U+00C0U+00E0U+00C1U+00E1U+00C2U+00E2U+00C3U+00E3U+00C4U+00E4U+00C5U+00E5U+00C6U+00E6U+00C7U+00E7" \o
    "U+00C8U+00E8U+00C9U+00E9U+00CAU+00EAU+00CBU+00EBU+00CCU+00ECU+00CDU+00EDU+00CEU+00EEU+00CFU+00EF" \o
    "U+00D0U+00F0U+00D1U+00F1U+00D2U+00F2U+00D3U+00F3U+00D4U+00F4U+00D5U+00F5U+00D6U+00F6U+00D8U+00F8" \o
    "U+00D9U+00F9U+00DAU+00FAU+00DBU+00FBU+00DCU+00FCU+00DDU+00FDU+00DEU+00FEU+0100U+0101U+0102U+0103" \o
    "U+0104U+0105U+0106U+0107U+0108U+0109U+010AU+010BU+010CU+010DU+010EU+010FU+0110U+0111U+0112U+0113" \o
    "U+0114U+0115U+0116U+0117U+0118U+0119U+011AU+011BU+011CU+011DU+011EU+011FU+0120U+0121U+0122U+0123" \o
    "U+0124U+0125U+0126U+0127U+0128U+0129U+012AU+012BU+012CU+012DU+012EU+012FU+0132U+0133U+0134U+0135" \o
    "U+0136U+0137U+0139U+013AU+013BU+013CU+013DU+013EU+013FU+0140U+0141U+0142U+0143U+0144U+0145U+0146" \o
    "U+0147U+0148U+014AU+014BU+014CU+014DU+014EU+014FU+0150U+0151U+0152U+0153U+0154U+0155U+0156U+0157" \o
    "U+0158U+0159U+015AU+015BU+015CU+015DU+015EU+015FU+0160U+0161U+0162U+0163U+0164U+0165U+0166U+0167" \o
    "U+0168U+0169U+016AU+016BU+016CU+016DU+016EU+016FU+0170U+0171U+0172U+0173U+0174U+0175U+0176U+0177" \o
    "U+0178U+00FFU+0179U+017AU+017BU+017CU+017DU+017EU+0181U+0253U+0182U+0183U+0184U+0185U+0186U+0254" \o
    "U+0187U+0188U+0189U+0256U+018AU+0257U+018BU+018CU+018EU+01DDU+018FU+0259U+0190U+025BU+0191U+0192" \o
    "U+0193U+0260U+0194U+0263U+0196U+0269U+0197U+0268U+0198U+0199U+019CU+026FU+019DU+0272U+019FU+0275" \o
    "U+01A0U+01A1U+01A2U+01A3U+01A4U+01A5U+01A6U+0280U+01A7U+01A8U+01A9U+0283U+01ACU+01ADU+01AEU+0288" \o
    "U+01AFU+01B0U+01B1U+028AU+01B2U+028BU+01B3U+01B4U+01B5U+01B6U+01B7U+0292U+01B8U+01B9U+01BCU+01BD" \o
    "U+01C4U+01C6U+01C5U+01C6U+01C7U+01C9U+01C8U+01C9U+01CAU+01CCU+01CBU+01CCU+01CDU+01CEU+01CFU+01D0" \o
    "U+01D1U+01D2U+01D3U+01D4U+01D5U+01D6U+01D7U+01D8U+01D9U+01DAU+01DBU+01DCU+01DEU+01DFU+01E0U+01E1" \o
    "U+01E2U+01E3U+01E4U+01E5U+01E6U+01E7U+01E8U+01E9U+01EAU+01EBU+01ECU+01EDU+01EEU+01EFU+01F1U+01F3" \o
    "U+01F2U+01F3U+01F4U+01F5U+01F6U+0195U+01F7U+01BFU+01F8U+01F9U+01FAU+01FBU+01FCU+01FDU+01FEU+01FF" \o
    "U+0200U+0201U+0202U+0203U+0204U+0205U+0206U+0207U+0208U+0209U+020AU+020BU+020CU+020DU+020EU+020F" \o
    "U+0210U+0211U+0212U+0213U+0214U+0215U+0216U+0217U+0218U+0219U+021AU+021BU+021CU+021DU+021EU+021F" \o
    "U+0220U+019EU+0222U+0223U+0224U+0225U+0226U+0227U+0228U+0229U+022AU+022BU+022CU+022DU+022EU+022F" \o
    "U+0230U+0231U+0232U+0233U+023AU+2C65U+023BU+023CU+023DU+019AU+023EU+2C66U+0241U+0242U+0243U+0180" \o
    "U+0244U+0289U+0245U+028CU+0246U+0247U+0248U+0249U+024AU+024BU+024CU+024DU+024EU+024FU+0370U+0371" \o
    "U+0372U+0373U+0376U+0377U+037FU+03F3U+0386U+03ACU+0388U+03ADU+0389U+03AEU+038AU+03AFU+038CU+03CC" \o
    "U+038EU+03CDU+038FU+03CEU+0391U+03B1U+0392U+03B2U+0393U+03B3U+0394U+03B4U+0395U+03B5U+0396U+03B6" \o
    "U+0397U+03B7U+0398U+03B8U+0399U+03B9U+039AU+03BAU+039BU+03BBU+039CU+03BCU+039DU+03BDU+039EU+03BE" \o
    "U+039FU+03BFU+03A0U+03C0U+03A1U+03C1U+03A3U+03C3U+03A4U+03C4U+03A5U+03C5U+03A6U+03C6U+03A7U+03C7" \o
    "U+03A8U+03C8U+03A9U+03C9U+03AAU+03CAU+03ABU+03CBU+03CFU+03D7U+03D8U+03D9U+03DAU+03DBU+03DCU+03DD" \o
    "U+03DEU+03DFU+03E0U+03E1U+03E2U+03E3U+03E4U+03E5U+03E6U+03E7U+03E8U+03E9U+03EAU+03EBU+03ECU+03ED" \o
    "U+03EEU+03EFU+03F4U+03B8U+03F7U+03F8U+03F9U+03F2U+03FAU+03FBU+03FDU+037BU+03FEU+037CU+03FFU+037D" \o
    "U+0400U+0450U+0401U+0451U+0402U+0452U+0403U+0453U+0404U+0454U+0405U+0455U+0406U+0456U+0407U+0457" \o
    "U+0408U+0458U+0409U+0459U+040AU+045AU+040BU+045BU+040CU+045CU+040DU+045DU+040EU+045EU+040FU+045F" \o
    "U+0410U+0430U+0411U+0431U+0412U+0432U+0413U+0433U+0414U+0434U+0415U+0435U+0416U+0436U+0417U+0437" \o
    "U+0418U+0438U+0419U+0439U+041AU+043AU+041BU+043BU+041CU+043CU+041DU+043DU+041EU+043EU+041FU+043F" \o
    "U+0420U+0440U+0421U+0441U+0422U+0442U+0423U+0443U+0424U+0444U+0425U+0445U+0426U+0446U+0427U+0447" \o
    "U+0428U+0448U+0429U+0449U+042AU+044AU+042BU+044BU+042CU+044CU+042DU+044DU+042EU+044EU+042FU+044F" \o
    "U+0460U+0461U+0462U+0463U+0464U+0465U+0466U+0467U+0468U+0469U+046AU+046BU+046CU+046DU+046EU+046F" \o
    "U+0470U+0471U+0472U+0473U+0474U+0475U+0476U+0477U+0478U+0479U+047AU+047BU+047CU+047DU+047EU+047F" \o
    "U+0480U+0481U+048AU+048BU+048CU+048DU+048EU+048FU+0490U+0491U+0492U+0493U+0494U+0495U+0496U+0497" \o
    "U+0498U+0499U+049AU+049BU+049CU+049DU+049EU+049FU+04A0U+04A1U+04A2U+04A3U+04A4U+04A5U+04A6U+04A7" \o
    "U+04A8U+04A9U+04AAU+04ABU+04ACU+04ADU+04AEU+04AFU+04B0U+04B1U+04B2U+04B3U+04B4U+04B5U+04B6U+04B7" \o
    "U+04B8U+04B9U+04BAU+04BBU+04BCU+04BDU+04BEU+04BFU+04C0U+04CFU+04C1U+04C2U+04C3U+04C4U+04C5U+04C6" \o
    "U+04C7U+04C8U+04C9U+04CAU+04CBU+04CCU+04CDU+04CEU+04D0U+04D1U+04D2U+04D3U+04D4U+04D5U+04D6U+04D7" \o
    "U+04D8U+04D9U+04DAU+04DBU+04DCU+04DDU+04DEU+04DFU+04E0U+04E1U+04E2U+04E3U+04E4U+04E5U+04E6U+04E7" \o
    "U+04E8U+04E9U+04EAU+04EBU+04ECU+04EDU+04EEU+04EFU+04F0U+04F1U+04F2U+04F3U+04F4U+04F5U+04F6U+04F7" \o
    "U+04F8U+04F9U+04FAU+04FBU+04FCU+04FDU+04FEU+04FFU+0500U+0501U+0502U+0503U+0504U+0505U+0506U+0507" \o
    "U+0508U+0509U+050AU+050BU+050CU+050DU+050EU+050FU+0510U+0511U+0512U+0513U+0514U+0515U+0516U+0517" \o
    "U+0518U+0519U+051AU+051BU+051CU+051DU+051EU+051FU+0520U+0521U+0522U+0523U+0524U+0525U+0526U+0527" \o
    "U+0528U+0529U+052AU+052BU+052CU+052DU+052EU+052FU+0531U+0561U+0532U+0562U+0533U+0563U+0534U+0564" \o
    "U+0535U+0565U+0536U+0566U+0537U+0567U+0538U+0568U+0539U+0569U+053AU+056AU+053BU+056BU+053CU+056C" \o
    "U+053DU+056DU+053EU+056EU+053FU+056FU+0540U+0570U+0541U+0571U+0542U+0572U+0543U+0573U+0544U+0574" \o
    "U+0545U+0575U+0546U+0576U+0547U+0577U+0548U+0578U+0549U+0579U+054AU+057AU+054BU+057BU+054CU+057C" \o
    "U+054DU+057DU+054EU+057EU+054FU+057FU+0550U+0580U+0551U+0581U+0552U+0582U+0553U+0583U+0554U+0584" \o
    "U+0555U+0585U+0556U+0586U+10A0U+2D00U+10A1U+2D01U+10A2U+2D02U+10A3U+2D03U+10A4U+2D04U+10A5U+2D05" \o
    "U+10A6U+2D06U+10A7U+2D07U+10A8U+2D08U+10A9U+2D09U+10AAU+2D0AU+10ABU+2D0BU+10ACU+2D0CU+10ADU+2D0D" \o
    "U+10AEU+2D0EU+10AFU+2D0FU+10B0U+2D10U+10B1U+2D11U+10B2U+2D12U+10B3U+2D13U+10B4U+2D14U+10B5U+2D15" \o
    "U+10B6U+2D16U+10B7U+2D17U+10B8U+2D18U+10B9U+2D19U+10BAU+2D1AU+10BBU+2D1BU+10BCU+2D1CU+10BDU+2D1D" \o
    "U+10BEU+2D1EU+10BFU+2D1FU+10C0U+2D20U+10C1U+2D21U+10C2U+2D22U+10C3U+2D23U+10C4U+2D24U+10C5U+2D25" \o
    "U+10C7U+2D27U+10CDU+2D2DU+13A0U+AB70U+13A1U+AB71U+13A2U+AB72U+13A3U+AB73U+13A4U+AB74U+13A5U+AB75" \o
    "U+13A6U+AB76U+13A7U+AB77U+13A8U+AB78U+13A9U+AB79U+13AAU+AB7AU+13ABU+AB7BU+13ACU+AB7CU+13ADU+AB7D" \o
    "U+13AEU+AB7EU+13AFU+AB7FU+13B0U+AB80U+13B1U+AB81U+13B2U+AB82U+13B3U+AB83U+13B4U+AB84U+13B5U+AB85" \o
    "U+13B6U+AB86U+13B7U+AB87U+13B8U+AB88U+13B9U+AB89U+13BAU+AB8AU+13BBU+AB8BU+13BCU+AB8CU+13BDU+AB8D" \o
    "U+13BEU+AB8EU+13BFU+AB8FU+13C0U+AB90U+13C1U+AB91U+13C2U+AB92U+13C3U+AB93U+13C4U+AB94U+13C5U+AB95" \o
    "U+13C6U+AB96U+13C7U+AB97U+13C8U+AB98U+13C9U+AB99U+13CAU+AB9AU+13CBU+AB9BU+13CCU+AB9CU+13CDU+AB9D" \o
    "U+13CEU+AB9EU+13CFU+AB9FU+13D0U+ABA0U+13D1U+ABA1U+13D2U+ABA2U+13D3U+ABA3U+13D4U+ABA4U+13D5U+ABA5" \o
    "U+13D6U+ABA6U+13D7U+ABA7U+13D8U+ABA8U+13D9U+ABA9U+13DAU+ABAAU+13DBU+ABABU+13DCU+ABACU+13DDU+ABAD" \o
    "U+13DEU+ABAEU+13DFU+ABAFU+13E0U+ABB0U+13E1U+ABB1U+13E2U+ABB2U+13E3U+ABB3U+13E4U+ABB4U+13E5U+ABB5" \o
    "U+13E6U+ABB6U+13E7U+ABB7U+13E8U+ABB8U+13E9U+ABB9U+13EAU+ABBAU+13EBU+ABBBU+13ECU+ABBCU+13EDU+ABBD" \o
    "U+13EEU+ABBEU+13EFU+ABBFU+13F0U+13F8U+13F1U+13F9U+13F2U+13FAU+13F3U+13FBU+13F4U+13FCU+13F5U+13FD" \o
    "U+1C89U+1C8AU+1C90U+10D0U+1C91U+10D1U+1C92U+10D2U+1C93U+10D3U+1C94U+10D4U+1C95U+10D5U+1C96U+10D6" \o
    "U+1C97U+10D7U+1C98U+10D8U+1C99U+10D9U+1C9AU+10DAU+1C9BU+10DBU+1C9CU+10DCU+1C9DU+10DDU+1C9EU+10DE" \o
    "U+1C9FU+10DFU+1CA0U+10E0U+1CA1U+10E1U+1CA2U+10E2U+1CA3U+10E3U+1CA4U+10E4U+1CA5U+10E5U+1CA6U+10E6" \o
    "U+1CA7U+10E7U+1CA8U+10E8U+1CA9U+10E9U+1CAAU+10EAU+1CABU+10EBU+1CACU+10ECU+1CADU+10EDU+1CAEU+10EE" \o
    "U+1CAFU+10EFU+1CB0U+10F0U+1CB1U+10F1U+1CB2U+10F2U+1CB3U+10F3U+1CB4U+10F4U+1CB5U+10F5U+1CB6U+10F6" \o
    "U+1CB7U+10F7U+1CB8U+10F8U+1CB9U+10F9U+1CBAU+10FAU+1CBDU+10FDU+1CBEU+10FEU+1CBFU+10FFU+1E00U+1E01" \o
    "U+1E02U+1E03U+1E04U+1E05U+1E06U+1E07U+1E08U+1E09U+1E0AU+1E0BU+1E0CU+1E0DU+1E0EU+1E0FU+1E10U+1E11" \o
    "U+1E12U+1E13U+1E14U+1E15U+1E16U+1E17U+1E18U+1E19U+1E1AU+1E1BU+1E1CU+1E1DU+1E1EU+1E1FU+1E20U+1E21" \o
    "U+1E22U+1E23U+1E24U+1E25U+1E26U+1E27U+1E28U+1E29U+1E2AU+1E2BU+1E2CU+1E2DU+1E2EU+1E2FU+1E30U+1E31" \o
    "U+1E32U+1E33U+1E34U+1E35U+1E36U+1E37U+1E38U+1E39U+1E3AU+1E3BU+1E3CU+1E3DU+1E3EU+1E3FU+1E40U+1E41" \o
    "U+1E42U+1E43U+1E44U+1E45U+1E46U+1E47U+1E48U+1E49U+1E4AU+1E4BU+1E4CU+1E4DU+1E4EU+1E4FU+1E50U+1E51" \o
    "U+1E52U+1E53U+1E54U+1E55U+1E56U+1E57U+1E58U+1E59U+1E5AU+1E5BU+1E5CU+1E5DU+1E5EU+1E5FU+1E60U+1E61" \o
    "U+1E62U+1E63U+1E64U+1E65U+1E66U+1E67U+1E68U+1E69U+1E6AU+1E6BU+1E6CU+1E6DU+1E6EU+1E6FU+1E70U+1E71" \o
    "U+1E72U+1E73U+1E74U+1E75U+1E76U+1E77U+1E78U+1E79U+1E7AU+1E7BU+1E7CU+1E7DU+1E7EU+1E7FU+1E80U+1E81" \o
    "U+1E82U+1E83U+1E84U+1E85U+1E86U+1E87U+1E88U+1E89U+1E8AU+1E8BU+1E8CU+1E8DU+1E8EU+1E8FU+1E90U+1E91" \o
    "U+1E92U+1E93U+1E94U+1E95U+1E9EU+00DFU+1EA0U+1EA1U+1EA2U+1EA3U+1EA4U+1EA5U+1EA6U+1EA7U+1EA8U+1EA9" \o
    "U+1EAAU+1EABU+1EACU+1EADU+1EAEU+1EAFU+1EB0U+1EB1U+1EB2U+1EB3U+1EB4U+1EB5U+1EB6U+1EB7U+1EB8U+1EB9" \o
    "U+1EBAU+1EBBU+1EBCU+1EBDU+1EBEU+1EBFU+1EC0U+1EC1U+1EC2U+1EC3U+1EC4U+1EC5U+1EC6U+1EC7U+1EC8U+1EC9" \o
    "U+1ECAU+1ECBU+1ECCU+1ECDU+1ECEU+1ECFU+1ED0U+1ED1U+1ED2U+1ED3U+1ED4U+1ED5U+1ED6U+1ED7U+1ED8U+1ED9" \o
    "U+1EDAU+1EDBU+1EDCU+1EDDU+1EDEU+1EDFU+1EE0U+1EE1U+1EE2U+1EE3U+1EE4U+1EE5U+1EE6U+1EE7U+1EE8U+1EE9" \o
    "U+1EEAU+1EEBU+1EECU+1EEDU+1EEEU+1EEFU+1EF0U+1EF1U+1EF2U+1EF3U+1EF4U+1EF5U+1EF6U+1EF7U+1EF8U+1EF9" \o
    "U+1EFAU+1EFBU+1EFCU+1EFDU+1EFEU+1EFFU+1F08U+1F00U+1F09U+1F01U+1F0AU+1F02U+1F0BU+1F03U+1F0CU+1F04" \o
    "U+1F0DU+1F05U+1F0EU+1F06U+1F0FU+1F07U+1F18U+1F10U+1F19U+1F11U+1F1AU+1F12U+1F1BU+1F13U+1F1CU+1F14" \o
    "U+1F1DU+1F15U+1F28U+1F20U+1F29U+1F21U+1F2AU+1F22U+1F2BU+1F23U+1F2CU+1F24U+1F2DU+1F25U+1F2EU+1F26" \o
    "U+1F2FU+1F27U+1F38U+1F30U+1F39U+1F31U+1F3AU+1F32U+1F3BU+1F33U+1F3CU+1F34U+1F3DU+1F35U+1F3EU+1F36" \o
    "U+1F3FU+1F37U+1F48U+1F40U+1F49U+1F41U+1F4AU+1F42U+1F4BU+1F43U+1F4CU+1F44U+1F4DU+1F45U+1F59U+1F51" \o
    "U+1F5BU+1F53U+1F5DU+1F55U+1F5FU+1F57U+1F68U+1F60U+1F69U+1F61U+1F6AU+1F62U+1F6BU+1F63U+1F6CU+1F64" \o
    "U+1F6DU+1F65U+1F6EU+1F66U+1F6FU+1F67U+1F88U+1F80U+1F89U+1F81U+1F8AU+1F82U+1F8BU+1F83U+1F8CU+1F84" \o
    "U+1F8DU+1F85U+1F8EU+1F86U+1F8FU+1F87U+1F98U+1F90U+1F99U+1F91U+1F9AU+1F92U+1F9BU+1F93U+1F9CU+1F94" \o
    "U+1F9DU+1F95U+1F9EU+1F96U+1F9FU+1F97U+1FA8U+1FA0U+1FA9U+1FA1U+1FAAU+1FA2U+1FABU+1FA3U+1FACU+1FA4" \o
    "U+1FADU+1FA5U+1FAEU+1FA6U+1FAFU+1FA7U+1FB8U+1FB0U+1FB9U+1FB1U+1FBAU+1F70U+1FBBU+1F71U+1FBCU+1FB3" \o
    "U+1FC8U+1F72U+1FC9U+1F73U+1FCAU+1F74U+1FCBU+1F75U+1FCCU+1FC3U+1FD8U+1FD0U+1FD9U+1FD1U+1FDAU+1F76" \o
    "U+1FDBU+1F77U+1FE8U+1FE0U+1FE9U+1FE1U+1FEAU+1F7AU+1FEBU+1F7BU+1FECU+1FE5U+1FF8U+1F78U+1FF9U+1F79" \o
    "U+1FFAU+1F7CU+1FFBU+1F7DU+1FFCU+1FF3U+2126U+03C9U+212BU+00E5U+2132U+214EU+2160U+2170U+2161U+2171" \o
    "U+2162U+2172U+2163U+2173U+2164U+2174U+2165U+2175U+2166U+2176U+2167U+2177U+2168U+2178U+2169U+2179" \o
    "U+216AU+217AU+216BU+217BU+216CU+217CU+216DU+217DU+216EU+217EU+216FU+217FU+2183U+2184U+24B6U+24D0" \o
    "U+24B7U+24D1U+24B8U+24D2U+24B9U+24D3U+24BAU+24D4U+24BBU+24D5U+24BCU+24D6U+24BDU+24D7U+24BEU+24D8" \o
    "U+24BFU+24D9U+24C0U+24DAU+24C1U+24DBU+24C2U+24DCU+24C3U+24DDU+24C4U+24DEU+24C5U+24DFU+24C6U+24E0" \o
    "U+24C7U+24E1U+24C8U+24E2U+24C9U+24E3U+24CAU+24E4U+24CBU+24E5U+24CCU+24E6U+24CDU+24E7U+24CEU+24E8" \o
    "U+24CFU+24E9U+2C00U+2C30U+2C01U+2C31U+2C02U+2C32U+2C03U+2C33U+2C04U+2C34U+2C05U+2C35U+2C06U+2C36" \o
    "U+2C07U+2C37U+2C08U+2C38U+2C09U+2C39U+2C0AU+2C3AU+2C0BU+2C3BU+2C0CU+2C3CU+2C0DU+2C3DU+2C0EU+2C3E" \o
    "U+2C0FU+2C3FU+2C10U+2C40U+2C11U+2C41U+2C12U+2C42U+2C13U+2C43U+2C14U+2C44U+2C15U+2C45U+2C16U+2C46" \o
    "U+2C17U+2C47U+2C18U+2C48U+2C19U+2C49U+2C1AU+2C4AU+2C1BU+2C4BU+2C1CU+2C4CU+2C1DU+2C4DU+2C1EU+2C4E" \o
    "U+2C1FU+2C4FU+2C20U+2C50U+2C21U+2C51U+2C22U+2C52U+2C23U+2C53U+2C24U+2C54U+2C25U+2C55U+2C26U+2C56" \o
    "U+2C27U+2C57U+2C28U+2C58U+2C29U+2C59U+2C2AU+2C5AU+2C2BU+2C5BU+2C2CU+2C5CU+2C2DU+2C5DU+2C2EU+2C5E" \o
    "U+2C2FU+2C5FU+2C60U+2C61U+2C62U+026BU+2C63U+1D7DU+2C64U+027DU+2C67U+2C68U+2C69U+2C6AU+2C6BU+2C6C" \o
    "U+2C6DU+0251U+2C6EU+0271U+2C6FU+0250U+2C70U+0252U+2C72U+2C73U+2C75U+2C76U+2C7EU+023FU+2C7FU+0240" \o
    "U+2C80U+2C81U+2C82U+2C83U+2C84U+2C85U+2C86U+2C87U+2C88U+2C89U+2C8AU+2C8BU+2C8CU+2C8DU+2C8EU+2C8F" \o
    "U+2C90U+2C91U+2C92U+2C93U+2C94U+2C95U+2C96U+2C97U+2C98U+2C99U+2C9AU+2C9BU+2C9CU+2C9DU+2C9EU+2C9F" \o
    "U+2CA0U+2CA1U+2CA2U+2CA3U+2CA4U+2CA5U+2CA6U+2CA7U+2CA8U+2CA9U+2CAAU+2CABU+2CACU+2CADU+2CAEU+2CAF" \o
    "U+2CB0U+2CB1U+2CB2U+2CB3U+2CB4U+2CB5U+2CB6U+2CB7U+2CB8U+2CB9U+2CBAU+2CBBU+2CBCU+2CBDU+2CBEU+2CBF" \o
    "U+2CC0U+2CC1U+2CC2U+2CC3U+2CC4U+2CC5U+2CC6U+2CC7U+2CC8U+2CC9U+2CCAU+2CCBU+2CCCU+2CCDU+2CCEU+2CCF" \o
    "U+2CD0U+2CD1U+2CD2U+2CD3U+2CD4U+2CD5U+2CD6U+2CD7U+2CD8U+2CD9U+2CDAU+2CDBU+2CDCU+2CDDU+2CDEU+2CDF" \o
    "U+2CE0U+2CE1U+2CE2U+2CE3U+2CEBU+2CECU+2CEDU+2CEEU+2CF2U+2CF3U+A640U+A641U+A642U+A643U+A644U+A645" \o
    "U+A646U+A647U+A648U+A649U+A64AU+A64BU+A64CU+A64DU+A64EU+A64FU+A650U+A651U+A652U+A653U+A654U+A655" \o
    "U+A656U+A657U+A658U+A659U+A65AU+A65BU+A65CU+A65DU+A65EU+A65FU+A660U+A661U+A662U+A663U+A664U+A665" \o
    "U+A666U+A667U+A668U+A669U+A66AU+A66BU+A66CU+A66DU+A680U+A681U+A682U+A683U+A684U+A685U+A686U+A687" \o
    "U+A688U+A689U+A68AU+A68BU+A68CU+A68DU+A68EU+A68FU+A690U+A691U+A692U+A693U+A694U+A695U+A696U+A697" \o
    "U+A698U+A699U+A69AU+A69BU+A722U+A723U+A724U+A725U+A726U+A727U+A728U+A729U+A72AU+A72BU+A72CU+A72D" \o
    "U+A72EU+A72FU+A732U+A733U+A734U+A735U+A736U+A737U+A738U+A739U+A73AU+A73BU+A73CU+A73DU+A73EU+A73F" \o
    "U+A740U+A741U+A742U+A743U+A744U+A745U+A746U+A747U+A748U+A749U+A74AU+A74BU+A74CU+A74DU+A74EU+A74F" \o
    "U+A750U+A751U+A752U+A753U+A754U+A755U+A756U+A757U+A758U+A759U+A75AU+A75BU+A75CU+A75DU+A75EU+A75F" \o
    "U+A760U+A761U+A762U+A763U+A764U+A765U+A766U+A767U+A768U+A769U+A76AU+A76BU+A76CU+A76DU+A76EU+A76F" \o
    "U+A779U+A77AU+A77BU+A77CU+A77DU+1D79U+A77EU+A77FU+A780U+A781U+A782U+A783U+A784U+A785U+A786U+A787" \o
    "U+A78BU+A78CU+A78DU+0265U+A790U+A791U+A792U+A793U+A796U+A797U+A798U+A799U+A79AU+A79BU+A79CU+A79D" \o
    "U+A79EU+A79FU+A7A0U+A7A1U+A7A2U+A7A3U+A7A4U+A7A5U+A7A6U+A7A7U+A7A8U+A7A9U+A7AAU+0266U+A7ABU+025C" \o
    "U+A7ACU+0261U+A7ADU+026CU+A7AEU+026AU+A7B0U+029EU+A7B1U+0287U+A7B2U+029DU+A7B3U+AB53U+A7B4U+A7B5" \o
    "U+A7B6U+A7B7U+A7B8U+A7B9U+A7BAU+A7BBU+A7BCU+A7BDU+A7BEU+A7BFU+A7C0U+A7C1U+A7C2U+A7C3U+A7C4U+A794" \o
    "U+A7C5U+0282U+A7C6U+1D8EU+A7C7U+A7C8U+A7C9U+A7CAU+A7CBU+0264U+A7CCU+A7CDU+A7CEU+A7CFU+A7D0U+A7D1" \o
    "U+A7D2U+A7D3U+A7D4U+A7D5U+A7D6U+A7D7U+A7D8U+A7D9U+A7DAU+A7DBU+A7DCU+019BU+A7F5U+A7F6U+FF21U+FF41" \o
    "U+FF22U+FF42U+FF23U+FF43U+FF24U+FF44U+FF25U+FF45U+FF26U+FF46U+FF27U+FF47U+FF28U+FF48U+FF29U+FF49" \o
    "U+FF2AU+FF4AU+FF2BU+FF4BU+FF2CU+FF4CU+FF2DU+FF4DU+FF2EU+FF4EU+FF2FU+FF4FU+FF30U+FF50U+FF31U+FF51" \o
    "U+FF32U+FF52U+FF33U+FF53U+FF34U+FF54U+FF35U+FF55U+FF36U+FF56U+FF37U+FF57U+FF38U+FF58U+FF39U+FF59" \o
    "U+FF3AU+FF5A"

\* the characters that lower to an ASCII letter or to several units
LowerSpecial ==
    << <<"U+0130", <<"i", "U+0307">>>>, <<"U+212A", <<"k">>>> >>

\* the upper-case mappings of the characters above U+007F that raise to one such
\* character: each character is followed by the one it raises to
UpperPairs ==
    "U+00B5U+039CU+00E0U+00C0U+00E1U+00C1U+00E2U+00C2U+00E3U+00C3U+00E4U+00C4U+00E5U+00C5U+00E6U+00C6" \o
    "U+00E7U+00C7U+00E8U+00C8U+00E9U+00C9U+00EAU+00CAU+00EBU+00CBU+00ECU+00CCU+00EDU+00CDU+00EEU+00CE" \o
    "U+00EFU+00CFU+00F0U+00D0U+00F1U+00D1U+00F2U+00D2U+00F3U+00D3U+00F4U+00D4U+00F5U+00D5U+00F6U+00D6" \o
    "U+00F8U+00D8U+00F9U+00D9U+00FAU+00DAU+00FBU+00DBU+00FCU+00DCU+00FDU+00DDU+00FEU+00DEU+00FFU+0178" \o
    "U+0101U+0100U+0103U+0102U+0105U+0104U+0107U+0106U+0109U+0108U+010BU+010AU+010DU+010CU+010FU+010E" \o
    "U+0111U+0110U+0113U+0112U+0115U+0114U+0117U+0116U+0119U+0118U+011BU+011AU+011DU+011CU+011FU+011E" \o
    "U+0121U+0120U+0123U+0122U+0125U+0124U+0127U+0126U+0129U+0128U+012BU+012AU+012DU+012CU+012FU+012E" \o
    "U+0133U+0132U+0135U+0134U+0137U+0136U+013AU+0139U+013CU+013BU+013EU+013DU+0140U+013FU+0142U+0141" \o
    "U+0144U+0143U+0146U+0145U+0148U+0147U+014BU+014AU+014DU+014CU+014FU+014EU+0151U+0150U+0153U+0152" \o
    "U+0155U+0154U+0157U+0156U+0159U+0158U+015BU+015AU+015DU+015CU+015FU+015EU+0161U+0160U+0163U+0162" \o
    "U+0165U+0164U+0167U+0166U+0169U+0168U+016BU+016AU+016DU+016CU+016FU+016EU+0171U+0170U+0173U+0172" \o
    "U+0175U+0174U+0177U+0176U+017AU+0179U+017CU+017BU+017EU+017DU+0180U+0243U+0183U+0182U+0185U+0184" \o
    "U+0188U+0187U+018CU+018BU+0192U+0191U+0195U+01F6U+0199U+0198U+019AU+023DU+019BU+A7DCU+019EU+0220" \o
    "U+01A1U+01A0U+01A3U+01A2U+01A5U+01A4U+01A8U+01A7U+01ADU+01ACU+01B0U+01AFU+01B4U+01B3U+01B6U+01B5" \o
    "U+01B9U+01B8U+01BDU+01BCU+01BFU+01F7U+01C5U+01C4U+01C6U+01C4U+01C8U+01C7U+01C9U+01C7U+01CBU+01CA" \o
    "U+01CCU+01CAU+01CEU+01CDU+01D0U+01CFU+01D2U+01D1U+01D4U+01D3U+01D6U+01D5U+01D8U+01D7U+01DAU+01D9" \o
    "U+01DCU+01DBU+01DDU+018EU+01DFU+01DEU+01E1U+01E0U+01E3U+01E2U+01E5U+01E4U+01E7U+01E6U+01E9U+01E8" \o
    "U+01EBU+01EAU+01EDU+01ECU+01EFU+01EEU+01F2U+01F1U+01F3U+01F1U+01F5U+01F4U+01F9U+01F8U+01FBU+01FA" \o
    "U+01FDU+01FCU+01FFU+01FEU+0201U+0200U+0203U+0202U+0205U+0204U+0207U+0206U+0209U+0208U+020BU+020A" \o
    "U+020DU+020CU+020FU+020EU+0211U+0210U+0213U+0212U+0215U+0214U+0217U+0216U+0219U+0218U+021BU+021A" \o
    "U+021DU+021CU+021FU+021EU+0223U+0222U+0225U+0224U+0227U+0226U+0229U+0228U+022BU+022AU+022DU+022C" \o
    "U+022FU+022EU+0231U+0230U+0233U+0232U+023CU+023BU+023FU+2C7EU+0240U+2C7FU+0242U+0241U+0247U+0246" \o
    "U+0249U+0248U+024BU+024AU+024DU+024CU+024FU+024EU+0250U+2C6FU+0251U+2C6DU+0252U+2C70U+0253U+0181" \o
    "U+0254U+0186U+0256U+0189U+0257U+018AU+0259U+018FU+025BU+0190U+025CU+A7ABU+0260U+0193U+0261U+A7AC" \o
    "U+0263U+0194U+0264U+A7CBU+0265U+A78DU+0266U+A7AAU+0268U+0197U+0269U+0196U+026AU+A7AEU+026BU+2C62" \o
    "U+026CU+A7ADU+026FU+019CU+0271U+2C6EU+0272U+019DU+0275U+019FU+027DU+2C64U+0280U+01A6U+0282U+A7C5" \o
    "U+0283U+01A9U+0287U+A7B1U+0288U+01AEU+0289U+0244U+028AU+01B1U+028BU+01B2U+028CU+0245U+0292U+01B7" \o
    "U+029DU+A7B2U+029EU+A7B0U+0345U+0399U+0371U+0370U+0373U+0372U+0377U+0376U+037BU+03FDU+037CU+03FE" \o
    "U+037DU+03FFU+03ACU+0386U+03ADU+0388U+03AEU+0389U+03AFU+038AU+03B1U+0391U+03B2U+0392U+03B3U+0393" \o
    "U+03B4U+0394U+03B5U+0395U+03B6U+0396U+03B7U+0397U+03B8U+0398U+03B9U+0399U+03BAU+039AU+03BBU+039B" \o
    "U+03BCU+039CU+03BDU+039DU+03BEU+039EU+03BFU+039FU+03C0U+03A0U+03C1U+03A1U+03C2U+03A3U+03C3U+03A3" \o
    "U+03C4U+03A4U+03C5U+03A5U+03C6U+03A6U+03C7U+03A7U+03C8U+03A8U+03C9U+03A9U+03CAU+03AAU+03CBU+03AB" \o
    "U+03CCU+038CU+03CDU+038EU+03CEU+038FU+03D0U+0392U+03D1U+0398U+03D5U+03A6U+03D6U+03A0U+03D7U+03CF" \o
    "U+03D9U+03D8U+03DBU+03DAU+03DDU+03DCU+03DFU+03DEU+03E1U+03E0U+03E3U+03E2U+03E5U+03E4U+03E7U+03E6" \o
    "U+03E9U+03E8U+03EBU+03EAU+03EDU+03ECU+03EFU+03EEU+03F0U+039AU+03F1U+03A1U+03F2U+03F9U+03F3U+037F" \o
    "U+03F5U+0395U+03F8U+03F7U+03FBU+03FAU+0430U+0410U+0431U+0411U+0432U+0412U+0433U+0413U+0434U+0414" \o
    "U+0435U+0415U+0436U+0416U+0437U+0417U+0438U+0418U+0439U+0419U+043AU+041AU+043BU+041BU+043CU+041C" \o
    "U+043DU+041DU+043EU+041EU+043FU+041FU+0440U+0420U+0441U+0421U+0442U+0422U+0443U+0423U+0444U+0424" \o
    "U+0445U+0425U+0446U+0426U+0447U+0427U+0448U+0428U+0449U+0429U+044AU+042AU+044BU+042BU+044CU+042C" \o
    "U+044DU+042DU+044EU+042EU+044FU+042FU+0450U+0400U+0451U+0401U+0452U+0402U+0453U+0403U+0454U+0404" \o
    "U+0455U+0405U+0456U+0406U+0457U+0407U+0458U+0408U+0459U+0409U+045AU+040AU+045BU+040BU+045CU+040C" \o
    "U+045DU+040DU+045EU+040EU+045FU+040FU+0461U+0460U+0463U+0462U+0465U+0464U+0467U+0466U+0469U+0468" \o
    "U+046BU+046AU+046DU+046CU+046FU+046EU+0471U+0470U+0473U+0472U+0475U+0474U+0477U+0476U+0479U+0478" \o
    "U+047BU+047AU+047DU+047CU+047FU+047EU+0481U+0480U+048BU+048AU+048DU+048CU+048FU+048EU+0491U+0490" \o
    "U+0493U+0492U+0495U+0494U+0497U+0496U+0499U+0498U+049BU+049AU+049DU+049CU+049FU+049EU+04A1U+04A0" \o
    "U+04A3U+04A2U+04A5U+04A4U+04A7U+04A6U+04A9U+04A8U+04ABU+04AAU+04ADU+04ACU+04AFU+04AEU+04B1U+04B0" \o
    "U+04B3U+04B2U+04B5U+04B4U+04B7U+04B6U+04B9U+04B8U+04BBU+04BAU+04BDU+04BCU+04BFU+04BEU+04C2U+04C1" \o
    "U+04C4U+04C3U+04C6U+04C5U+04C8U+04C7U+04CAU+04C9U+04CCU+04CBU+04CEU+04CDU+04CFU+04C0U+04D1U+04D0" \o
    "U+04D3U+04D2U+04D5U+04D4U+04D7U+04D6U+04D9U+04D8U+04DBU+04DAU+04DDU+04DCU+04DFU+04DEU+04E1U+04E0" \o
    "U+04E3U+04E2U+04E5U+04E4U+04E7U+04E6U+04E9U+04E8U+04EBU+04EAU+04EDU+04ECU+04EFU+04EEU+04F1U+04F0" \o
    "U+04F3U+04F2U+04F5U+04F4U+04F7U+04F6U+04F9U+04F8U+04FBU+04FAU+04FDU+04FCU+04FFU+04FEU+0501U+0500" \o
    "U+0503U+0502U+0505U+0504U+0507U+0506U+0509U+0508U+050BU+050AU+050DU+050CU+050FU+050EU+0511U+0510" \o
    "U+0513U+0512U+0515U+0514U+0517U+0516U+0519U+0518U+051BU+051AU+051DU+051CU+051FU+051EU+0521U+0520" \o
    "U+0523U+0522U+0525U+0524U+0527U+0526U+0529U+0528U+052BU+052AU+052DU+052CU+052FU+052EU+0561U+0531" \o
    "U+0562U+0532U+0563U+0533U+0564U+0534U+0565U+0535U+0566U+0536U+0567U+0537U+0568U+0538U+0569U+0539" \o
    "U+056AU+053AU+056BU+053BU+056CU+053CU+056DU+053DU+056EU+053EU+056FU+053FU+0570U+0540U+0571U+0541" \o
    "U+0572U+0542U+0573U+0543U+0574U+0544U+0575U+0545U+0576U+0546U+0577U+0547U+0578U+0548U+0579U+0549" \o
    "U+057AU+054AU+057BU+054BU+057CU+054CU+057DU+054DU+057EU+054EU+057FU+054FU+0580U+0550U+0581U+0551" \o
    "U+0582U+0552U+0583U+0553U+0584U+0554U+0585U+0555U+0586U+0556U+10D0U+1C90U+10D1U+1C91U+10D2U+1C92" \o
    "U+10D3U+1C93U+10D4U+1C94U+10D5U+1C95U+10D6U+1C96U+10D7U+1C97U+10D8U+1C98U+10D9U+1C99U+10DAU+1C9A" \o
    "U+10DBU+1C9BU+10DCU+1C9CU+10DDU+1C9DU+10DEU+1C9EU+10DFU+1C9FU+10E0U+1CA0U+10E1U+1CA1U+10E2U+1CA2" \o
    "U+10E3U+1CA3U+10E4U+1CA4U+10E5U+1CA5U+10E6U+1CA6U+10E7U+1CA7U+10E8U+1CA8U+10E9U+1CA9U+10EAU+1CAA" \o
    "U+10EBU+1CABU+10ECU+1CACU+10EDU+1CADU+10EEU+1CAEU+10EFU+1CAFU+10F0U+1CB0U+10F1U+1CB1U+10F2U+1CB2" \o
    "U+10F3U+1CB3U+10F4U+1CB4U+10F5U+1CB5U+10F6U+1CB6U+10F7U+1CB7U+10F8U+1CB8U+10F9U+1CB9U+10FAU+1CBA" \o
    "U+10FDU+1CBDU+10FEU+1CBEU+10FFU+1CBFU+13F8U+13F0U+13F9U+13F1U+13FAU+13F2U+13FBU+13F3U+13FCU+13F4" \o
    "U+13FDU+13F5U+1C80U+0412U+1C81U+0414U+1C82U+041EU+1C83U+0421U+1C84U+0422U+1C85U+0422U+1C86U+042A" \o
    "U+1C87U+0462U+1C88U+A64AU+1C8AU+1C89U+1D79U+A77DU+1D7DU+2C63U+1D8EU+A7C6U+1E01U+1E00U+1E03U+1E02" \o
    "U+1E05U+1E04U+1E07U+1E06U+1E09U+1E08U+1E0BU+1E0AU+1E0DU+1E0CU+1E0FU+1E0EU+1E11U+1E10U+1E13U+1E12" \o
    "U+1E15U+1E14U+1E17U+1E16U+1E19U+1E18U+1E1BU+1E1AU+1E1DU+1E1CU+1E1FU+1E1EU+1E21U+1E20U+1E23U+1E22" \o
    "U+1E25U+1E24U+1E27U+1E26U+1E29U+1E28U+1E2BU+1E2AU+1E2DU+1E2CU+1E2FU+1E2EU+1E31U+1E30U+1E33U+1E32" \o
    "U+1E35U+1E34U+1E37U+1E36U+1E39U+1E38U+1E3BU+1E3AU+1E3DU+1E3CU+1E3FU+1E3EU+1E41U+1E40U+1E43U+1E42" \o
    "U+1E45U+1E44U+1E47U+1E46U+1E49U+1E48U+1E4BU+1E4AU+1E4DU+1E4CU+1E4FU+1E4EU+1E51U+1E50U+1E53U+1E52" \o
    "U+1E55U+1E54U+1E57U+1E56U+1E59U+1E58U+1E5BU+1E5AU+1E5DU+1E5CU+1E5FU+1E5EU+1E61U+1E60U+1E63U+1E62" \o
    "U+1E65U+1E64U+1E67U+1E66U+1E69U+1E68U+1E6BU+1E6AU+1E6DU+1E6CU+1E6FU+1E6EU+1E71U+1E70U+1E73U+1E72" \o
    "U+1E75U+1E74U+1E77U+1E76U+1E79U+1E78U+1E7BU+1E7AU+1E7DU+1E7CU+1E7FU+1E7EU+1E81U+1E80U+1E83U+1E82" \o
    "U+1E85U+1E84U+1E87U+1E86U+1E89U+1E88U+1E8BU+1E8AU+1E8DU+1E8CU+1E8FU+1E8EU+1E91U+1E90U+1E93U+1E92" \o
    "U+1E95U+1E94U+1E9BU+1E60U+1EA1U+1EA0U+1EA3U+1EA2U+1EA5U+1EA4U+1EA7U+1EA6U+1EA9U+1EA8U+1EABU+1EAA" \o
    "U+1EADU+1EACU+1EAFU+1EAEU+1EB1U+1EB0U+1EB3U+1EB2U+1EB5U+1EB4U+1EB7U+1EB6U+1EB9U+1EB8U+1EBBU+1EBA" \o
    "U+1EBDU+1EBCU+1EBFU+1EBEU+1EC1U+1EC0U+1EC3U+1EC2U+1EC5U+1EC4U+1EC7U+1EC6U+1EC9U+1EC8U+1ECBU+1ECA" \o
    "U+1ECDU+1ECCU+1ECFU+1ECEU+1ED1U+1ED0U+1ED3U+1ED2U+1ED5U+1ED4U+1ED7U+1ED6U+1ED9U+1ED8U+1EDBU+1EDA" \o
    "U+1EDDU+1EDCU+1EDFU+1EDEU+1EE1U+1EE0U+1EE3U+1EE2U+1EE5U+1EE4U+1EE7U+1EE6U+1EE9U+1EE8U+1EEBU+1EEA" \o
    "U+1EEDU+1EECU+1EEFU+1EEEU+1EF1U+1EF0U+1EF3U+1EF2U+1EF5U+1EF4U+1EF7U+1EF6U+1EF9U+1EF8U+1EFBU+1EFA" \o
    "U+1EFDU+1EFCU+1EFFU+1EFEU+1F00U+1F08U+1F01U+1F09U+1F02U+1F0AU+1F03U+1F0BU+1F04U+1F0CU+1F05U+1F0D" \o
    "U+1F06U+1F0EU+1F07U+1F0FU+1F10U+1F18U+1F11U+1F19U+1F12U+1F1AU+1F13U+1F1BU+1F14U+1F1CU+1F15U+1F1D" \o
    "U+1F20U+1F28U+1F21U+1F29U+1F22U+1F2AU+1F23U+1F2BU+1F24U+1F2CU+1F25U+1F2DU+1F26U+1F2EU+1F27U+1F2F" \o
    "U+1F30U+1F38U+1F31U+1F39U+1F32U+1F3AU+1F33U+1F3BU+1F34U+1F3CU+1F35U+1F3DU+1F36U+1F3EU+1F37U+1F3F" \o
    "U+1F40U+1F48U+1F41U+1F49U+1F42U+1F4AU+1F43U+1F4BU+1F44U+1F4CU+1F45U+1F4DU+1F51U+1F59U+1F53U+1F5B" \o
    "U+1F55U+1F5DU+1F57U+1F5FU+1F60U+1F68U+1F61U+1F69U+1F62U+1F6AU+1F63U+1F6BU+1F64U+1F6CU+1F65U+1F6D" \o
    "U+1F66U+1F6EU+1F67U+1F6FU+1F70U+1FBAU+1F71U+1FBBU+1F72U+1FC8U+1F73U+1FC9U+1F74U+1FCAU+1F75U+1FCB" \o
    "U+1F76U+1FDAU+1F77U+1FDBU+1F78U+1FF8U+1F79U+1FF9U+1F7AU+1FEAU+1F7BU+1FEBU+1F7CU+1FFAU+1F7DU+1FFB" \o
    "U+1FB0U+1FB8U+1FB1U+1FB9U+1FBEU+0399U+1FD0U+1FD8U+1FD1U+1FD9U+1FE0U+1FE8U+1FE1U+1FE9U+1FE5U+1FEC" \o
    "U+214EU+2132U+2170U+2160U+2171U+2161U+2172U+2162U+2173U+2163U+2174U+2164U+2175U+2165U+2176U+2166" \o
    "U+2177U+2167U+2178U+2168U+2179U+2169U+217AU+216AU+217BU+216BU+217CU+216CU+217DU+216DU+217EU+216E" \o
    "U+217FU+216FU+2184U+2183U+24D0U+24B6U+24D1U+24B7U+24D2U+24B8U+24D3U+24B9U+24D4U+24BAU+24D5U+24BB" \o
    "U+24D6U+24BCU+24D7U+24BDU+24D8U+24BEU+24D9U+24BFU+24DAU+24C0U+24DBU+24C1U+24DCU+24C2U+24DDU+24C3" \o
    "U+24DEU+24C4U+24DFU+24C5U+24E0U+24C6U+24E1U+24C7U+24E2U+24C8U+24E3U+24C9U+24E4U+24CAU+24E5U+24CB" \o
    "U+24E6U+24CCU+24E7U+24CDU+24E8U+24CEU+24E9U+24CFU+2C30U+2C00U+2C31U+2C01U+2C32U+2C02U+2C33U+2C03" \o
    "U+2C34U+2C04U+2C35U+2C05U+2C36U+2C06U+2C37U+2C07U+2C38U+2C08U+2C39U+2C09U+2C3AU+2C0AU+2C3BU+2C0B" \o
    "U+2C3CU+2C0CU+2C3DU+2C0DU+2C3EU+2C0EU+2C3FU+2C0FU+2C40U+2C10U+2C41U+2C11U+2C42U+2C12U+2C43U+2C13" \o
    "U+2C44U+2C14U+2C45U+2C15U+2C46U+2C16U+2C47U+2C17U+2C48U+2C18U+2C49U+2C19U+2C4AU+2C1AU+2C4BU+2C1B" \o
    "U+2C4CU+2C1CU+2C4DU+2C1DU+2C4EU+2C1EU+2C4FU+2C1FU+2C50U+2C20U+2C51U+2C21U+2C52U+2C22U+2C53U+2C23" \o
    "U+2C54U+2C24U+2C55U+2C25U+2C56U+2C26U+2C57U+2C27U+2C58U+2C28U+2C59U+2C29U+2C5AU+2C2AU+2C5BU+2C2B" \o
    "U+2C5CU+2C2CU+2C5DU+2C2DU+2C5EU+2C2EU+2C5FU+2C2FU+2C61U+2C60U+2C65U+023AU+2C66U+023EU+2C68U+2C67" \o
    "U+2C6AU+2C69U+2C6CU+2C6BU+2C73U+2C72U+2C76U+2C75U+2C81U+2C80U+2C83U+2C82U+2C85U+2C84U+2C87U+2C86" \o
    "U+2C89U+2C88U+2C8BU+2C8AU+2C8DU+2C8CU+2C8FU+2C8EU+2C91U+2C90U+2C93U+2C92U+2C95U+2C94U+2C97U+2C96" \o
    "U+2C99U+2C98U+2C9BU+2C9AU+2C9DU+2C9CU+2C9FU+2C9EU+2CA1U+2CA0U+2CA3U+2CA2U+2CA5U+2CA4U+2CA7U+2CA6" \o
    "U+2CA9U+2CA8U+2CABU+2CAAU+2CADU+2CACU+2CAFU+2CAEU+2CB1U+2CB0U+2CB3U+2CB2U+2CB5U+2CB4U+2CB7U+2CB6" \o
    "U+2CB9U+2CB8U+2CBBU+2CBAU+2CBDU+2CBCU+2CBFU+2CBEU+2CC1U+2CC0U+2CC3U+2CC2U+2CC5U+2CC4U+2CC7U+2CC6" \o
    "U+2CC9U+2CC8U+2CCBU+2CCAU+2CCDU+2CCCU+2CCFU+2CCEU+2CD1U+2CD0U+2CD3U+2CD2U+2CD5U+2CD4U+2CD7U+2CD6" \o
    "U+2CD9U+2CD8U+2CDBU+2CDAU+2CDDU+2CDCU+2CDFU+2CDEU+2CE1U+2CE0U+2CE3U+2CE2U+2CECU+2CEBU+2CEEU+2CED" \o
    "U+2CF3U+2CF2U+2D00U+10A0U+2D01U+10A1U+2D02U+10A2U+2D03U+10A3U+2D04U+10A4U+2D05U+10A5U+2D06U+10A6" \o
    "U+2D07U+10A7U+2D08U+10A8U+2D09U+10A9U+2D0AU+10AAU+2D0BU+10ABU+2D0CU+10ACU+2D0DU+10ADU+2D0EU+10AE" \o
    "U+2D0FU+10AFU+2D10U+10B0U+2D11U+10B1U+2D12U+10B2U+2D13U+10B3U+2D14U+10B4U+2D15U+10B5U+2D16U+10B6" \o
    "U+2D17U+10B7U+2D18U+10B8U+2D19U+10B9U+2D1AU+10BAU+2D1BU+10BBU+2D1CU+10BCU+2D1DU+10BDU+2D1EU+10BE" \o
    "U+2D1FU+10BFU+2D20U+10C0U+2D21U+10C1U+2D22U+10C2U+2D23U+10C3U+2D24U+10C4U+2D25U+10C5U+2D27U+10C7" \o
    "U+2D2DU+10CDU+A641U+A640U+A643U+A642U+A645U+A644U+A647U+A646U+A649U+A648U+A64BU+A64AU+A64DU+A64C" \o
    "U+A64FU+A64EU+A651U+A650U+A653U+A652U+A655U+A654U+A657U+A656U+A659U+A658U+A65BU+A65AU+A65DU+A65C" \o
    "U+A65FU+A65EU+A661U+A660U+A663U+A662U+A665U+A664U+A667U+A666U+A669U+A668U+A66BU+A66AU+A66DU+A66C" \o
    "U+A681U+A680U+A683U+A682U+A685U+A684U+A687U+A686U+A689U+A688U+A68BU+A68AU+A68DU+A68CU+A68FU+A68E" \o
    "U+A691U+A690U+A693U+A692U+A695U+A694U+A697U+A696U+A699U+A698U+A69BU+A69AU+A723U+A722U+A725U+A724" \o
    "U+A727U+A726U+A729U+A728U+A72BU+A72AU+A72DU+A72CU+A72FU+A72EU+A733U+A732U+A735U+A734U+A737U+A736" \o
    "U+A739U+A738U+A73BU+A73AU+A73DU+A73CU+A73FU+A73EU+A741U+A740U+A743U+A742U+A745U+A744U+A747U+A746" \o
    "U+A749U+A748U+A74BU+A74AU+A74DU+A74CU+A74FU+A74EU+A751U+A750U+A753U+A752U+A755U+A754U+A757U+A756" \o
    "U+A759U+A758U+A75BU+A75AU+A75DU+A75CU+A75FU+A75EU+A761U+A760U+A763U+A762U+A765U+A764U+A767U+A766" \o
    "U+A769U+A768U+A76BU+A76AU+A76DU+A76CU+A76FU+A76EU+A77AU+A779U+A77CU+A77BU+A77FU+A77EU+A781U+A780" \o
    "U+A783U+A782U+A785U+A784U+A787U+A786U+A78CU+A78BU+A791U+A790U+A793U+A792U+A794U+A7C4U+A797U+A796" \o
    "U+A799U+A798U+A79BU+A79AU+A79DU+A79CU+A79FU+A79EU+A7A1U+A7A0U+A7A3U+A7A2U+A7A5U+A7A4U+A7A7U+A7A6" \o
    "U+A7A9U+A7A8U+A7B5U+A7B4U+A7B7U+A7B6U+A7B9U+A7B8U+A7BBU+A7BAU+A7BDU+A7BCU+A7BFU+A7BEU+A7C1U+A7C0" \o
    "U+A7C3U+A7C2U+A7C8U+A7C7U+A7CAU+A7C9U+A7CDU+A7CCU+A7CFU+A7CEU+A7D1U+A7D0U+A7D3U+A7D2U+A7D5U+A7D4" \o
    "U+A7D7U+A7D6U+A7D9U+A7D8U+A7DBU+A7DAU+A7F6U+A7F5U+AB53U+A7B3U+AB70U+13A0U+AB71U+13A1U+AB72U+13A2" \o
    "U+AB73U+13A3U+AB74U+13A4U+AB75U+13A5U+AB76U+13A6U+AB77U+13A7U+AB78U+13A8U+AB79U+13A9U+AB7AU+13AA" \o
    "U+AB7BU+13ABU+AB7CU+13ACU+AB7DU+13ADU+AB7EU+13AEU+AB7FU+13AFU+AB80U+13B0U+AB81U+13B1U+AB82U+13B2" \o
    "U+AB83U+13B3U+AB84U+13B4U+AB85U+13B5U+AB86U+13B6U+AB87U+13B7U+AB88U+13B8U+AB89U+13B9U+AB8AU+13BA" \o
    "U+AB8BU+13BBU+AB8CU+13BCU+AB8DU+13BDU+AB8EU+13BEU+AB8FU+13BFU+AB90U+13C0U+AB91U+13C1U+AB92U+13C2" \o
    "U+AB93U+13C3U+AB94U+13C4U+AB95U+13C5U+AB96U+13C6U+AB97U+13C7U+AB98U+13C8U+AB99U+13C9U+AB9AU+13CA" \o
    "U+AB9BU+13CBU+AB9CU+13CCU+AB9DU+13CDU+AB9EU+13CEU+AB9FU+13CFU+ABA0U+13D0U+ABA1U+13D1U+ABA2U+13D2" \o
    "U+ABA3U+13D3U+ABA4U+13D4U+ABA5U+13D5U+ABA6U+13D6U+ABA7U+13D7U+ABA8U+13D8U+ABA9U+13D9U+ABAAU+13DA" \o
    "U+ABABU+13DBU+ABACU+13DCU+ABADU+13DDU+ABAEU+13DEU+ABAFU+13DFU+ABB0U+13E0U+ABB1U+13E1U+ABB2U+13E2" \o
    "U+ABB3U+13E3U+ABB4U+13E4U+ABB5U+13E5U+ABB6U+13E6U+ABB7U+13E7U+ABB8U+13E8U+ABB9U+13E9U+ABBAU+13EA" \o
    "U+ABBBU+13EBU+ABBCU+13ECU+ABBDU+13EDU+ABBEU+13EEU+ABBFU+13EFU+FF41U+FF21U+FF42U+FF22U+FF43U+FF23" \o
    "U+FF44U+FF24U+FF45U+FF25U+FF46U+FF26U+FF47U+FF27U+FF48U+FF28U+FF49U+FF29U+FF4AU+FF2AU+FF4BU+FF2B" \o
    "U+FF4CU+FF2CU+FF4DU+FF2DU+FF4EU+FF2EU+FF4FU+FF2FU+FF50U+FF30U+FF51U+FF31U+FF52U+FF32U+FF53U+FF33" \o
    "U+FF54U+FF34U+FF55U+FF35U+FF56U+FF36U+FF57U+FF37U+FF58U+FF38U+FF59U+FF39U+FF5AU+FF3A"

\* the characters that raise to an ASCII letter or to several units
UpperSpecial ==
    << <<"U+00DF", <<"S", "S">>>>, <<"U+0131", <<"I">>>>, <<"U+0149", <<"U+02BC", "N">>>>,
       <<"U+017F", <<"S">>>>, <<"U+01F0", <<"J", "U+030C">>>>, <<"U+0390", <<"U+0399", "U+0308", "U+0301">>>>,
       <<"U+03B0", <<"U+03A5", "U+0308", "U+0301">>>>, <<"U+0587", <<"U+0535", "U+0552">>>>, <<"U+1E96", <<"H", "U+0331">>>>,
       <<"U+1E97", <<"T", "U+0308">>>>, <<"U+1E98", <<"W", "U+030A">>>>, <<"U+1E99", <<"Y", "U+030A">>>>,
       <<"U+1E9A", <<"A", "U+02BE">>>>, <<"U+1F50", <<"U+03A5", "U+0313">>>>, <<"U+1F52", <<"U+03A5", "U+0313", "U+0300">>>>,
       <<"U+1F54", <<"U+03A5", "U+0313", "U+0301">>>>, <<"U+1F56", <<"U+03A5", "U+0313", "U+0342">>>>, <<"U+1F80", <<"U+1F08", "U+0399">>>>,
       <<"U+1F81", <<"U+1F09", "U+0399">>>>, <<"U+1F82", <<"U+1F0A", "U+0399">>>>, <<"U+1F83", <<"U+1F0B", "U+0399">>>>,
       <<"U+1F84", <<"U+1F0C", "U+0399">>>>, <<"U+1F85", <<"U+1F0D", "U+0399">>>>, <<"U+1F86", <<"U+1F0E", "U+0399">>>>,
       <<"U+1F87", <<"U+1F0F", "U+0399">>>>, <<"U+1F88", <<"U+1F08", "U+0399">>>>, <<"U+1F89", <<"U+1F09", "U+0399">>>>,
       <<"U+1F8A", <<"U+1F0A", "U+0399">>>>, <<"U+1F8B", <<"U+1F0B", "U+0399">>>>, <<"U+1F8C", <<"U+1F0C", "U+0399">>>>,
       <<"U+1F8D", <<"U+1F0D", "U+0399">>>>, <<"U+1F8E", <<"U+1F0E", "U+0399">>>>, <<"U+1F8F", <<"U+1F0F", "U+0399">>>>,
       <<"U+1F90", <<"U+1F28", "U+0399">>>>, <<"U+1F91", <<"U+1F29", "U+0399">>>>, <<"U+1F92", <<"U+1F2A", "U+0399">>>>,
       <<"U+1F93", <<"U+1F2B", "U+0399">>>>, <<"U+1F94", <<"U+1F2C", "U+0399">>>>, <<"U+1F95", <<"U+1F2D", "U+0399">>>>,
       <<"U+1F96", <<"U+1F2E", "U+0399">>>>, <<"U+1F97", <<"U+1F2F", "U+0399">>>>, <<"U+1F98", <<"U+1F28", "U+0399">>>>,
       <<"U+1F99", <<"U+1F29", "U+0399">>>>, <<"U+1F9A", <<"U+1F2A", "U+0399">>>>, <<"U+1F9B", <<"U+1F2B", "U+0399">>>>,
       <<"U+1F9C", <<"U+1F2C", "U+0399">>>>, <<"U+1F9D", <<"U+1F2D", "U+0399">>>>, <<"U+1F9E", <<"U+1F2E", "U+0399">>>>,
       <<"U+1F9F", <<"U+1F2F", "U+0399">>>>, <<"U+1FA0", <<"U+1F68", "U+0399">>>>, <<"U+1FA1", <<"U+1F69", "U+0399">>>>,
       <<"U+1FA2", <<"U+1F6A", "U+0399">>>>, <<"U+1FA3", <<"U+1F6B", "U+0399">>>>, <<"U+1FA4", <<"U+1F6C", "U+0399">>>>,
       <<"U+1FA5", <<"U+1F6D", "U+0399">>>>, <<"U+1FA6", <<"U+1F6E", "U+0399">>>>, <<"U+1FA7", <<"U+1F6F", "U+0399">>>>,
       <<"U+1FA8", <<"U+1F68", "U+0399">>>>, <<"U+1FA9", <<"U+1F69", "U+0399">>>>, <<"U+1FAA", <<"U+1F6A", "U+0399">>>>,
       <<"U+1FAB", <<"U+1F6B", "U+0399">>>>, <<"U+1FAC", <<"U+1F6C", "U+0399">>>>, <<"U+1FAD", <<"U+1F6D", "U+0399">>>>,
       <<"U+1FAE", <<"U+1F6E", "U+0399">>>>, <<"U+1FAF", <<"U+1F6F", "U+0399">>>>, <<"U+1FB2", <<"U+1FBA", "U+0399">>>>,
       <<"U+1FB3", <<"U+0391", "U+0399">>>>, <<"U+1FB4", <<"U+0386", "U+0399">>>>, <<"U+1FB6", <<"U+0391", "U+0342">>>>,
       <<"U+1FB7", <<"U+0391", "U+0342", "U+0399">>>>, <<"U+1FBC", <<"U+0391", "U+0399">>>>, <<"U+1FC2", <<"U+1FCA", "U+0399">>>>,
       <<"U+1FC3", <<"U+0397", "U+0399">>>>, <<"U+1FC4", <<"U+0389", "U+0399">>>>, <<"U+1FC6", <<"U+0397", "U+0342">>>>,
       <<"U+1FC7", <<"U+0397", "U+0342", "U+0399">>>>, <<"U+1FCC", <<"U+0397", "U+0399">>>>, <<"U+1FD2", <<"U+0399", "U+0308", "U+0300">>>>,
       <<"U+1FD3", <<"U+0399", "U+0308", "U+0301">>>>, <<"U+1FD6", <<"U+0399", "U+0342">>>>, <<"U+1FD7", <<"U+0399", "U+0308", "U+0342">>>>,
       <<"U+1FE2", <<"U+03A5", "U+0308", "U+0300">>>>, <<"U+1FE3", <<"U+03A5", "U+0308", "U+0301">>>>, <<"U+1FE4", <<"U+03A1", "U+0313">>>>,
       <<"U+1FE6", <<"U+03A5", "U+0342">>>>, <<"U+1FE7", <<"U+03A5", "U+0308", "U+0342">>>>, <<"U+1FF2", <<"U+1FFA", "U+0399">>>>,
       <<"U+1FF3", <<"U+03A9", "U+0399">>>>, <<"U+1FF4", <<"U+038F", "U+0399">>>>, <<"U+1FF6", <<"U+03A9", "U+0342">>>>,
       <<"U+1FF7", <<"U+03A9", "U+0342", "U+0399">>>>, <<"U+1FFC", <<"U+03A9", "U+0399">>>>, <<"U+FB00", <<"F", "F">>>>,
       <<"U+FB01", <<"F", "I">>>>, <<"U+FB02", <<"F", "L">>>>, <<"U+FB03", <<"F", "F", "I">>>>,
       <<"U+FB04", <<"F", "F", "L">>>>, <<"U+FB05", <<"S", "T">>>>, <<"U+FB06", <<"S", "T">>>>,
       <<"U+FB13", <<"U+0544", "U+0546">>>>, <<"U+FB14", <<"U+0544", "U+0535">>>>, <<"U+FB15", <<"U+0544", "U+053B">>>>,
       <<"U+FB16", <<"U+054E", "U+0546">>>>, <<"U+FB17", <<"U+0544", "U+053D">>>> >>

\* a character written as itself is an ASCII one; the others are written U+XXXX
Ascii(c) == Len(c) = 1

\* the entries of a table of U+XXXX words, w letters to the entry, that begin
\* with the character
Places(t, w, c) ==
    {i \in 1..(Len(t) \div w) : SubSeq(t, w * (i - 1) + 1, w * (i - 1) + 6) = c}

\* the units a character above U+007F maps to under a case mapping
CaseOf(pairs, special, c) ==
    LET sp == {i \in 1..Len(special) : special[i][1] = c}
        ix == Places(pairs, 12, c)
    IN IF sp # {} THEN special[CHOOSE i \in sp : TRUE][2]
       ELSE IF ix # {}
       THEN <<SubSeq(pairs, 12 * (CHOOSE i \in ix : TRUE) - 5, 12 * (CHOOSE i \in ix : TRUE))>>
       ELSE <<c>>

\* the code units one character lowers to
toLowerChar(c) ==
    IF c \in UpperSet THEN <<LowerOf[c]>>
    ELSE IF Ascii(c) THEN <<c>>
    ELSE CaseOf(LowerPairs, LowerSpecial, c)

\* the code units one character raises to
toUpperChar(c) ==
    IF c \in LowerSet THEN <<UpperOf[c]>>
    ELSE IF Ascii(c) THEN <<c>>
    ELSE CaseOf(UpperPairs, UpperSpecial, c)

\* the number a word of hexadecimal digits writes, and the U+XXXX word of a
\* code unit
HexDigits == "0123456789ABCDEF"
HexVal(d) == CHOOSE k \in 0..15 : SubSeq(HexDigits, k + 1, k + 1) = d
RECURSIVE HexNum(_)
HexNum(w) ==
    IF Len(w) = 0 THEN 0
    ELSE 16 * HexNum(SubSeq(w, 1, Len(w) - 1)) + HexVal(SubSeq(w, Len(w), Len(w)))
HexDigit(n) == SubSeq(HexDigits, n + 1, n + 1)
UnitOf(n) ==
    "U+" \o HexDigit(n \div 4096) \o HexDigit((n \div 256) % 16)
         \o HexDigit((n \div 16) % 16) \o HexDigit(n % 16)

\* a character above U+FFFF is two code units, a high surrogate (U+D800 to
\* U+DBFF) followed by a low one (U+DC00 to U+DFFF)
HighSurrogate(c) == ~Ascii(c) /\ SubSeq(c, 3, 4) \in {"D8", "D9", "DA", "DB"}
LowSurrogate(c) == ~Ascii(c) /\ SubSeq(c, 3, 4) \in {"DC", "DD", "DE", "DF"}
PairAt(s, i) == i >= 1 /\ i < Len(s) /\ HighSurrogate(s[i]) /\ LowSurrogate(s[i + 1])
PairEnd(s, i) == i > 1 /\ PairAt(s, i - 1)

\* the code point of the character above U+007F that begins at a place of a
\* string, and the two units of a code point above U+FFFF
CodePoint(s, i) ==
    IF PairAt(s, i)
    THEN 65536 + 1024 * (HexNum(SubSeq(s[i], 3, 6)) - 55296) + (HexNum(SubSeq(s[i + 1], 3, 6)) - 56320)
    ELSE HexNum(SubSeq(s[i], 3, 6))
UnitsOf(cp) ==
    <<UnitOf(55296 + ((cp - 65536) \div 1024)), UnitOf(56320 + ((cp - 65536) % 1024))>>

\* the case mappings above U+FFFF (Unicode 17): the first and the last capital
\* of a run, and how far above it the small letter lies (Deseret, Osage,
\* Vithkuqi, Old Hungarian, Garay, Warang Citi, Medefaidrin, Beria Erfe, Adlam)
SupplementaryCase ==
    << <<66560, 66599, 40>>, <<66736, 66771, 40>>, <<66928, 66938, 39>>, <<66940, 66954, 39>>,
       <<66956, 66962, 39>>, <<66964, 66965, 39>>, <<68736, 68786, 64>>, <<68944, 68965, 32>>,
       <<71840, 71871, 32>>, <<93760, 93791, 32>>, <<93856, 93880, 27>>, <<125184, 125217, 34>> >>
LowerPoint(cp) ==
    LET r == {k \in 1..Len(SupplementaryCase) :
                 SupplementaryCase[k][1] <= cp /\ cp <= SupplementaryCase[k][2]}
    IN IF r = {} THEN cp ELSE cp + SupplementaryCase[CHOOSE k \in r : TRUE][3]
UpperPoint(cp) ==
    LET r == {k \in 1..Len(SupplementaryCase) :
                 /\ SupplementaryCase[k][1] + SupplementaryCase[k][3] <= cp
                 /\ cp <= SupplementaryCase[k][2] + SupplementaryCase[k][3]}
    IN IF r = {} THEN cp ELSE cp - SupplementaryCase[CHOOSE k \in r : TRUE][3]

\* whether a code point lies in one of the runs of a table: each run is its
\* first and its last code point, six hexadecimal digits each
InRanges(t, cp) ==
    \E k \in 1..(Len(t) \div 12) :
        /\ HexNum(SubSeq(t, 12 * k - 11, 12 * k - 6)) <= cp
        /\ cp <= HexNum(SubSeq(t, 12 * k - 5, 12 * k))

\* the code points with the property Cased (Unicode 17)
CasedRanges ==
    "00004100005A00006100007A0000AA0000AA0000B50000B50000BA0000BA0000C00000D60000D80000F60000F80001BA" \o
    "0001BC0001BF0001C40002930002960002B80002C00002C10002E00002E4000345000345000370000373000376000377" \o
    "00037A00037D00037F00037F00038600038600038800038A00038C00038C00038E0003A10003A30003F50003F7000481" \o
    "00048A00052F0005310005560005600005880010A00010C50010C70010C70010CD0010CD0010D00010FA0010FD0010FF" \o
    "0013A00013F50013F80013FD001C80001C8A001C90001CBA001CBD001CBF001D00001DBF001E00001F15001F18001F1D" \o
    "001F20001F45001F48001F4D001F50001F57001F59001F59001F5B001F5B001F5D001F5D001F5F001F7D001F80001FB4" \o
    "001FB6001FBC001FBE001FBE001FC2001FC4001FC6001FCC001FD0001FD3001FD6001FDB001FE0001FEC001FF2001FF4" \o
    "001FF6001FFC00207100207100207F00207F00209000209C00210200210200210700210700210A002113002115002115" \o
    "00211900211D00212400212400212600212600212800212800212A00212D00212F00213400213900213900213C00213F" \o
    "00214500214900214E00214E00216000217F0021830021840024B60024E9002C00002CE4002CEB002CEE002CF2002CF3" \o
    "002D00002D25002D27002D27002D2D002D2D00A64000A66D00A68000A69D00A72200A78700A78B00A78E00A79000A7DC" \o
    "00A7F100A7F100A7F500A7F600A7F800A7FA00AB3000AB5A00AB5C00AB6800AB7000ABBF00FB0000FB0600FB1300FB17" \o
    "00FF2100FF3A00FF4100FF5A01040001044F0104B00104D30104D80104FB01057001057A01057C01058A01058C010592" \o
    "0105940105950105970105A10105A30105B10105B30105B90105BB0105BC0107800107800107830107850107870107B0" \o
    "0107B20107BA010C80010CB2010CC0010CF2010D50010D65010D70010D850118A00118DF016E40016E7F016EA0016EB8" \o
    "016EBB016ED301D40001D45401D45601D49C01D49E01D49F01D4A201D4A201D4A501D4A601D4A901D4AC01D4AE01D4B9" \o
    "01D4BB01D4BB01D4BD01D4C301D4C501D50501D50701D50A01D50D01D51401D51601D51C01D51E01D53901D53B01D53E" \o
    "01D54001D54401D54601D54601D54A01D55001D55201D6A501D6A801D6C001D6C201D6DA01D6DC01D6FA01D6FC01D714" \o
    "01D71601D73401D73601D74E01D75001D76E01D77001D78801D78A01D7A801D7AA01D7C201D7C401D7CB01DF0001DF09" \o
    "01DF0B01DF1E01DF2501DF2A01E03001E06D01E90001E94301F13001F14901F15001F16901F17001F189"

\* the code points with the property Case_Ignorable (Unicode 17)
CaseIgnorableRanges ==
    "00002700002700002E00002E00003A00003A00005E00005E0000600000600000A80000A80000AD0000AD0000AF0000AF" \o
    "0000B40000B40000B70000B80002B000036F00037400037500037A00037A000384000385000387000387000483000489" \o
    "00055900055900055F00055F0005910005BD0005BF0005BF0005C10005C20005C40005C50005C70005C70005F40005F4" \o
    "00060000060500061000061A00061C00061C00064000064000064B00065F0006700006700006D60006DD0006DF0006E8" \o
    "0006EA0006ED00070F00070F00071100071100073000074A0007A60007B00007EB0007F50007FA0007FA0007FD0007FD" \o
    "00081600082D00085900085B00088800088800089000089100089700089F0008C900090200093A00093A00093C00093C" \o
    "00094100094800094D00094D0009510009570009620009630009710009710009810009810009BC0009BC0009C10009C4" \o
    "0009CD0009CD0009E20009E30009FE0009FE000A01000A02000A3C000A3C000A41000A42000A47000A48000A4B000A4D" \o
    "000A51000A51000A70000A71000A75000A75000A81000A82000ABC000ABC000AC1000AC5000AC7000AC8000ACD000ACD" \o
    "000AE2000AE3000AFA000AFF000B01000B01000B3C000B3C000B3F000B3F000B41000B44000B4D000B4D000B55000B56" \o
    "000B62000B63000B82000B82000BC0000BC0000BCD000BCD000C00000C00000C04000C04000C3C000C3C000C3E000C40" \o
    "000C46000C48000C4A000C4D000C55000C56000C62000C63000C81000C81000CBC000CBC000CBF000CBF000CC6000CC6" \o
    "000CCC000CCD000CE2000CE3000D00000D01000D3B000D3C000D41000D44000D4D000D4D000D62000D63000D81000D81" \o
    "000DCA000DCA000DD2000DD4000DD6000DD6000E31000E31000E34000E3A000E46000E4E000EB1000EB1000EB4000EBC" \o
    "000EC6000EC6000EC8000ECE000F18000F19000F35000F35000F37000F37000F39000F39000F71000F7E000F80000F84" \o
    "000F86000F87000F8D000F97000F99000FBC000FC6000FC600102D00103000103200103700103900103A00103D00103E" \o
    "00105800105900105E00106000107100107400108200108200108500108600108D00108D00109D00109D0010FC0010FC" \o
    "00135D00135F0017120017140017320017330017520017530017720017730017B40017B50017B70017BD0017C60017C6" \o
    "0017C90017D30017D70017D70017DD0017DD00180B00180F0018430018430018850018860018A90018A9001920001922" \o
    "00192700192800193200193200193900193B001A17001A18001A1B001A1B001A56001A56001A58001A5E001A60001A60" \o
    "001A62001A62001A65001A6C001A73001A7C001A7F001A7F001AA7001AA7001AB0001ADD001AE0001AEB001B00001B03" \o
    "001B34001B34001B36001B3A001B3C001B3C001B42001B42001B6B001B73001B80001B81001BA2001BA5001BA8001BA9" \o
    "001BAB001BAD001BE6001BE6001BE8001BE9001BED001BED001BEF001BF1001C2C001C33001C36001C37001C78001C7D" \o
    "001CD0001CD2001CD4001CE0001CE2001CE8001CED001CED001CF4001CF4001CF8001CF9001D2C001D6A001D78001D78" \o
    "001D9B001DFF001FBD001FBD001FBF001FC1001FCD001FCF001FDD001FDF001FED001FEF001FFD001FFE00200B00200F" \o
    "00201800201900202400202400202700202700202A00202E00206000206400206600206F00207100207100207F00207F" \o
    "00209000209C0020D00020F0002C7C002C7D002CEF002CF1002D6F002D6F002D7F002D7F002DE0002DFF002E2F002E2F" \o
    "00300500300500302A00302D00303100303500303B00303B00309900309E0030FC0030FE00A01500A01500A4F800A4FD" \o
    "00A60C00A60C00A66F00A67200A67400A67D00A67F00A67F00A69C00A69F00A6F000A6F100A70000A72100A77000A770" \o
    "00A78800A78A00A7F100A7F400A7F800A7F900A80200A80200A80600A80600A80B00A80B00A82500A82600A82C00A82C" \o
    "00A8C400A8C500A8E000A8F100A8FF00A8FF00A92600A92D00A94700A95100A98000A98200A9B300A9B300A9B600A9B9" \o
    "00A9BC00A9BD00A9CF00A9CF00A9E500A9E600AA2900AA2E00AA3100AA3200AA3500AA3600AA4300AA4300AA4C00AA4C" \o
    "00AA7000AA7000AA7C00AA7C00AAB000AAB000AAB200AAB400AAB700AAB800AABE00AABF00AAC100AAC100AADD00AADD" \o
    "00AAEC00AAED00AAF300AAF400AAF600AAF600AB5B00AB5F00AB6900AB6B00ABE500ABE500ABE800ABE800ABED00ABED" \o
    "00FB1E00FB1E00FBB200FBC200FE0000FE0F00FE1300FE1300FE2000FE2F00FE5200FE5200FE5500FE5500FEFF00FEFF" \o
    "00FF0700FF0700FF0E00FF0E00FF1A00FF1A00FF3E00FF3E00FF4000FF4000FF7000FF7000FF9E00FF9F00FFE300FFE3" \o
    "00FFF900FFFB0101FD0101FD0102E00102E001037601037A0107800107850107870107B00107B20107BA010A01010A03" \o
    "010A05010A06010A0C010A0F010A38010A3A010A3F010A3F010AE5010AE6010D24010D27010D4E010D4E010D69010D6D" \o
    "010D6F010D6F010EAB010EAC010EC5010EC5010EFA010EFF010F46010F50010F82010F85011001011001011038011046" \o
    "01107001107001107301107401107F0110810110B30110B60110B90110BA0110BD0110BD0110C20110C20110CD0110CD" \o
    "01110001110201112701112B01112D0111340111730111730111800111810111B60111BE0111C90111CC0111CF0111CF" \o
    "01122F01123101123401123401123601123701123E01123E0112410112410112DF0112DF0112E30112EA011300011301" \o
    "01133B01133C01134001134001136601136C0113700113740113BB0113C00113CE0113CE0113D00113D00113D20113D2" \o
    "0113E10113E201143801143F01144201144401144601144601145E01145E0114B30114B80114BA0114BA0114BF0114C0" \o
    "0114C20114C30115B20115B50115BC0115BD0115BF0115C00115DC0115DD01163301163A01163D01163D01163F011640" \o
    "0116AB0116AB0116AD0116AD0116B00116B50116B70116B701171D01171D01171F01171F01172201172501172701172B" \o
    "01182F01183701183901183A01193B01193C01193E01193E0119430119430119D40119D70119DA0119DB0119E00119E0" \o
    "011A01011A0A011A33011A38011A3B011A3E011A47011A47011A51011A56011A59011A5B011A8A011A96011A98011A99" \o
    "011B60011B60011B62011B64011B66011B66011C30011C36011C38011C3D011C3F011C3F011C92011CA7011CAA011CB0" \o
    "011CB2011CB3011CB5011CB6011D31011D36011D3A011D3A011D3C011D3D011D3F011D45011D47011D47011D90011D91" \o
    "011D95011D95011D97011D97011DD9011DD9011EF3011EF4011F00011F01011F36011F3A011F40011F40011F42011F42" \o
    "011F5A011F5A01343001344001344701345501611E01612901612D01612F016AF0016AF4016B30016B36016B40016B43" \o
    "016D40016D42016D6B016D6C016F4F016F4F016F8F016F9F016FE0016FE1016FE3016FE4016FF2016FF301AFF001AFF3" \o
    "01AFF501AFFB01AFFD01AFFE01BC9D01BC9E01BCA001BCA301CF0001CF2D01CF3001CF4601D16701D16901D17301D182" \o
    "01D18501D18B01D1AA01D1AD01D24201D24401DA0001DA3601DA3B01DA6C01DA7501DA7501DA8401DA8401DA9B01DA9F" \o
    "01DAA101DAAF01E00001E00601E00801E01801E01B01E02101E02301E02401E02601E02A01E03001E06D01E08F01E08F" \o
    "01E13001E13D01E2AE01E2AE01E2EC01E2EF01E4EB01E4EF01E5EE01E5EF01E6E301E6E301E6E601E6E601E6EE01E6EF" \o
    "01E6F501E6F501E6FF01E6FF01E8D001E8D601E94401E94B01F3FB01F3FF0E00010E00010E00200E007F0E01000E01EF"

\* the character that begins at a place of a string has a case
Cased(s, j) ==
    IF Ascii(s[j]) THEN s[j] \in UpperSet \cup LowerSet
    ELSE InRanges(CasedRanges, CodePoint(s, j))

\* the character that begins at a place of a string is one the Final_Sigma
\* rule skips
CaseIgnorable(s, j) ==
    IF Ascii(s[j]) THEN s[j] \in {"'", ".", ":", "^"}
    ELSE InRanges(CaseIgnorableRanges, CodePoint(s, j))

\* Final_Sigma: a capital sigma lowers to the final form when the nearest
\* character before it that is not skipped has a case and the nearest one
\* after it that is not skipped has none
FinalSigma(s, i) ==
    LET before == {j \in 1..(i - 1) : ~PairEnd(s, j) /\ ~CaseIgnorable(s, j)}
        after == {j \in (i + 1)..Len(s) : ~PairEnd(s, j) /\ ~CaseIgnorable(s, j)}
    IN /\ s[i] = "U+03A3"
       /\ before # {}
       /\ Cased(s, CHOOSE j \in before : \A k \in before : k <= j)
       /\ \/ after = {}
          \/ ~Cased(s, CHOOSE j \in after : \A k \in after : j <= k)

\* the units a string is made of, joined (one character may map to several units)
Joined(u) ==
    IF \A i \in 1..Len(u) : Len(u[i]) = 1 THEN [i \in 1..Len(u) |-> u[i][1]] ELSE Cat(u)

toLowerCase(s) ==
    Joined([i \in 1..Len(s) |->
        IF FinalSigma(s, i) THEN <<"U+03C2">>
        ELSE IF PairAt(s, i) THEN UnitsOf(LowerPoint(CodePoint(s, i)))
        ELSE IF PairEnd(s, i) THEN <<>>
        ELSE toLowerChar(s[i])])
toUpperCase(s) ==
    Joined([i \in 1..Len(s) |->
        IF PairAt(s, i) THEN UnitsOf(UpperPoint(CodePoint(s, i)))
        ELSE IF PairEnd(s, i) THEN <<>>
        ELSE toUpperChar(s[i])])


\* the folding of a /.../i test against an ASCII pattern: without the u flag a
\* character above U+007F never folds to an ASCII one, so only A-Z fold
FoldAscii(s) == [i \in 1..Len(s) |-> IF s[i] \in UpperSet THEN LowerOf[s[i]] ELSE s[i]]

RECURSIVE trimStart(_)
trimStart(s) ==
    IF s # <<>> /\ Head(s) \in WhiteSpace THEN trimStart(Tail(s)) ELSE s

RECURSIVE trimEnd(_)
trimEnd(s) ==
    IF s # <<>> /\ s[Len(s)] \in WhiteSpace
    THEN trimEnd(SubSeq(s, 1, Len(s) - 1))
    ELSE s

trim(s) == trimEnd(trimStart(s))

\* s contains p as a contiguous substring
Contains(s, p) ==
    \E i \in 1..(Len(s) - Len(p) + 1) : SubSeq(s, i, i + Len(p) - 1) = p

\* s ends with p
EndsWith(s, p) ==
    Len(s) >= Len(p) /\ SubSeq(s, Len(s) - Len(p) + 1, Len(s)) = p

-----------------------------------------------------------------------------
(* String literals of the source *)

S_yokweb  == <<"y","o","k","w","e","b">>
S_trueweb == <<"t","r","u","e","w","e","b">>
S_pl      == <<"p","l">>
S_en      == <<"e","n">>

\* sample metadata values an event may carry
S_TrueWebPadded == <<" ","T","r","u","e","W","e","b"," ">>
S_YOKWEB  == <<"Y","O","K","W","E","B">>
S_acme    == <<"a","c","m","e">>
S_blank   == <<" "," ">>
S_PLpadded == <<"P","L"," ">>
S_de      == <<"d","e">>
S_Acme    == <<"A","c","m","e">>
S_TrueWeb == <<"T","r","u","e","W","e","b">>
\* YOKWEB written with the Kelvin sign, between a no-break space and a byte order mark
S_YoKelvinWeb == <<"U+00A0","Y","O","U+212A","W","E","B","U+FEFF">>
\* PL between an em space and a form feed
S_PLwide == <<"U+2003","P","L","\f">>

\* sample configuration values
S_bucket  == <<"g","s",":","/","/","a","s","s","e","t","s">>
S_secret  == <<"s","k">>

-----------------------------------------------------------------------------
(* index.js: configuration read at module load *)

\* process.env.X: undefined when unset, else a string
Env(k) == env[k]

\* const BRAND_DEFAULT = (process.env.BRAND_DEFAULT || "yokweb").toLowerCase();
BRAND_DEFAULT ==
    Str(toLowerCase(JsOr(Env("BRAND_DEFAULT"), Str(S_yokweb)).s))

\* const SUPPRESS_TTL_MS = 24 * 60 * 60 * 1000;
SUPPRESS_TTL_MS == 24 * 60 * 60 * 1000

\* suppressed.get(email): undefined is modelled as 0, which "!ts" treats alike
MapGet(map, email) == IF email \in DOMAIN map THEN map[email] ELSE 0

-----------------------------------------------------------------------------
(* index.js: metadata helpers *)

\* obj?.metadata?.[key]
MetaOf(obj, key) ==
    IF obj.t # "object" THEN Undef
    ELSE IF obj.metadata.t # "object" THEN Undef
    ELSE IF key \in DOMAIN obj.metadata.f THEN obj.metadata.f[key]
    ELSE Undef

\* function pickMeta(obj, key)
pickMeta(obj, key) ==
    LET v == MetaOf(obj, key) IN
    JsOr(IF IsStr(v) THEN Str(toLowerCase(trim(v.s))) ELSE NullV, NullV)

\* function normalizeBrand(v)
normalizeBrand(v) ==
    IF v = Str(S_trueweb) THEN Str(S_trueweb)
    ELSE IF v = Str(S_yokweb) THEN Str(S_yokweb)
    ELSE NullV

\* function normalizeLocale(v)
normalizeLocale(v) ==
    IF v = Str(S_pl) THEN Str(S_pl)
    ELSE IF v = Str(S_en) THEN Str(S_en)
    ELSE NullV

\* lineMeta?.price, lineMeta?.product
LinePrice(lineMeta) == IF lineMeta.t = "object" THEN lineMeta.price ELSE Undef
LineProduct(lineMeta) == IF lineMeta.t = "object" THEN lineMeta.product ELSE Undef


\* inv?.lines?.data?.[0] and the lineMeta built from it (index.js:322-333)
LineMetaOf(inv) ==
    LET line == inv.line IN
    [t |-> "object",
     price |-> IF line.t = "object" THEN line.price ELSE Undef,
     product |-> IF line.t = "object" /\ line.price.t = "object"
                    /\ Truthy(line.price.product) /\ line.price.product.t # "string"
                 THEN line.price.product
                 ELSE NullV]

\* what resolveBrandLocale would return if the default were the raw environment
\* value, not lower-cased (as in the older revision, part_002:144)
resolveBrandLocale_RawDefault(inv, customer, lineMeta) ==
    LET candBrand == normalizeBrand(
            JsOr(JsOr(JsOr(pickMeta(inv, "brand"), pickMeta(customer, "brand")),
                      pickMeta(LinePrice(lineMeta), "brand")),
                 pickMeta(LineProduct(lineMeta), "brand")))
        candLocale == normalizeLocale(
            JsOr(JsOr(JsOr(pickMeta(inv, "locale"), pickMeta(customer, "locale")),
                      pickMeta(LinePrice(lineMeta), "locale")),
                 pickMeta(LineProduct(lineMeta), "locale")))
    IN [brand |-> JsOr(candBrand, JsOr(Env("BRAND_DEFAULT"), Str(S_yokweb))),
        locale |-> JsOr(candLocale, Str(S_en))]

\* what resolveBrandLocale would return if a brand match ended the walk for the
\* locale too (the single-tier resolution of the older revision, part_003:94-98)
resolveBrandLocale_Coupled(inv, customer, lineMeta) ==
    LET tiers == <<inv, customer, LinePrice(lineMeta), LineProduct(lineMeta)>>
        hit == {i \in 1..4 : Truthy(pickMeta(tiers[i], "brand"))}
        first == IF hit = {} THEN 0 ELSE CHOOSE i \in hit : \A j \in hit : i <= j
        candBrand == IF first = 0 THEN NullV
                     ELSE normalizeBrand(pickMeta(tiers[first], "brand"))
        candLocale == IF first = 0
                      THEN normalizeLocale(
                            JsOr(JsOr(JsOr(pickMeta(inv, "locale"), pickMeta(customer, "locale")),
                                      pickMeta(LinePrice(lineMeta), "locale")),
                                 pickMeta(LineProduct(lineMeta), "locale")))
                      ELSE normalizeLocale(pickMeta(tiers[first], "locale"))
    IN [brand |-> JsOr(candBrand, BRAND_DEFAULT),
        locale |-> JsOr(candLocale, Str(S_en))]

\* function resolveBrandLocale({ inv, customer, lineMeta })
resolveBrandLocale(inv, customer, lineMeta) ==
    LET candBrand == normalizeBrand(
            JsOr(JsOr(JsOr(pickMeta(inv, "brand"), pickMeta(customer, "brand")),
                      pickMeta(LinePrice(lineMeta), "brand")),
                 pickMeta(LineProduct(lineMeta), "brand")))
        candLocale == normalizeLocale(
            JsOr(JsOr(JsOr(pickMeta(inv, "locale"), pickMeta(customer, "locale")),
                      pickMeta(LinePrice(lineMeta), "locale")),
                 pickMeta(LineProduct(lineMeta), "locale")))
    IN [brand |-> JsOr(candBrand, BRAND_DEFAULT),
        locale |-> JsOr(candLocale, Str(S_en))]


-----------------------------------------------------------------------------
(* Objects carrying metadata *)

Meta(f) == [t |-> "object", f |-> f]
Obj(meta) == [t |-> "object", metadata |-> meta]

\* metadata objects an invoice, customer, price or product may carry
MetaSamples ==
    { Meta([x \in {} |-> Undef]),
      Meta([brand |-> Str(S_TrueWebPadded), locale |-> Str(S_en)]),
      Meta([brand |-> Str(S_YOKWEB)]),
      Meta([brand |-> Str(S_acme), locale |-> Str(S_de)]),
      Meta([brand |-> Str(S_blank), locale |-> Str(S_PLpadded)]),
      Meta([brand |-> Str(S_YoKelvinWeb), locale |-> Str(S_PLwide)]),
      Meta([locale |-> Str(S_en)]),
      Meta([brand |-> Num(7)]) }

\* a tier is an object with metadata, or no object at all (customer null, no line)
TierSamples == {NullV} \cup {Obj(m) : m \in MetaSamples}

\* process.env as far as index.js and renderEmail.js read it
EnvOf(brandDefault, testTo, assets, secrets) ==
    [BRAND_DEFAULT |-> brandDefault, TEST_TO |-> testTo, ASSETS_BUCKET |-> assets,
     STRIPE_SECRET_KEY |-> secrets, STRIPE_WEBHOOK_SECRET |-> secrets]

BrandDefaultSamples == {Undef, Str(S_TrueWeb), Str(S_Acme)}

-----------------------------------------------------------------------------
(* The state before any event *)

\* the handler invocations that may be in flight at once
Handlers == {"h1", "h2"}

\* how old a suppression record with timestamp ts is at time t, against the TTL
AgeClass(ts, t) ==
    IF ts = 0 THEN "none"
    ELSE IF t - ts < SUPPRESS_TTL_MS THEN "young"
    ELSE IF t - ts = SUPPRESS_TTL_MS THEN "edge"
    ELSE "old"

NoGate == [rec |-> "unseen", ses |-> "unseen", send |-> "unseen"]

\* the handler's locals before anything is assigned
Fresh ==
    [expanded |-> FALSE, customerObj |-> NullV, to |-> NullV,
     brand |-> NullV, locale |-> NullV, cfg |-> NullV, service |-> NullV,
     gate |-> NoGate, sesReply |-> NullV, sendReply |-> NullV]

StartNow == 1

EmptyMap == [x \in {} |-> 0]

Quiet ==
    /\ now = StartNow
    /\ suppressed = EmptyMap
    /\ pc = [h \in Handlers |-> "idle"]
    /\ ev = [h \in Handlers |-> 0]
    /\ hs = [h \in Handlers |-> Fresh]
    /\ log = [h \in Handlers |-> <<>>]
    /\ resp = [h \in Handlers |-> NullV]
    /\ nEvents = 0
    /\ nTicks = 0
    /\ noted = [ses |-> EmptyMap, send |-> EmptyMap]

QuietUnchanged ==
    UNCHANGED <<env, now, suppressed, pc, ev, hs, log, resp, nEvents, nTicks, noted>>

-----------------------------------------------------------------------------
(* resolveBrandLocale as a function of its inputs *)

InitResolve ==
    /\ Quiet
    /\ env \in {EnvOf(b, Undef, Str(S_bucket), Str(S_secret)) : b \in BrandDefaultSamples}
    /\ arg \in {[fn |-> "resolveBrandLocale", inv |-> i, customer |-> c,
                 lineMeta |-> [t |-> "object", price |-> p, product |-> q]] :
                    i \in TierSamples \ {NullV}, c \in TierSamples,
                    p \in TierSamples, q \in TierSamples}
    /\ ret = NullV

ApplyResolve ==
    /\ arg.fn = "resolveBrandLocale"
    /\ ret = NullV
    /\ ret' = resolveBrandLocale(arg.inv, arg.customer, arg.lineMeta)
    /\ UNCHANGED arg
    /\ QuietUnchanged

NextResolve == ApplyResolve

SpecResolve == InitResolve /\ [][NextResolve]_vars

\* --- vocabulary of the resolver claims ---

ValidBrands == {S_yokweb, S_trueweb}
ValidLocales == {S_en, S_pl}

\* the value of a metadata value after case and whitespace are ignored
Folded(v) == toLowerCase(trim(v.s))

\* v is a recognized value of the enumerated set
Recognized(v, set) == IsStr(v) /\ Folded(v) \in set

\* v is a non-empty string that is not in the enumerated set
Unrecognized(v, set) == IsStr(v) /\ Folded(v) # <<>> /\ Folded(v) \notin set

\* the four tiers in priority order: invoice, customer, price, product
TiersOf(a) == <<a.inv, a.customer, LinePrice(a.lineMeta), LineProduct(a.lineMeta)>>
TierValue(a, i, key) == MetaOf(TiersOf(a)[i], key)

ValidTiers(a, key, set) == {i \in 1..4 : Recognized(TierValue(a, i, key), set)}
JunkTiers(a, key, set) == {i \in 1..4 : Unrecognized(TierValue(a, i, key), set)}
MinOf(S) == CHOOSE i \in S : \A j \in S : i <= j

Resolved == arg # NullV /\ arg.fn = "resolveBrandLocale" /\ ret # NullV

\* C7: when no tier carries a recognized brand the result is exactly BRAND_DEFAULT,
\* and when no tier carries a recognized locale the result is exactly "en".
C7_DefaultsWhenNoUsableMetadata ==
    Resolved =>
        /\ (ValidTiers(arg, "brand", ValidBrands) = {} => ret.brand = BRAND_DEFAULT)
        /\ (ValidTiers(arg, "locale", ValidLocales) = {} => ret.locale = Str(S_en))

\* C7 witness: a resolved event with no recognized brand and no recognized locale,
\* under a configured (non built-in) default brand.
C7_Witness ==
    /\ Resolved
    /\ ValidTiers(arg, "brand", ValidBrands) = {}
    /\ ValidTiers(arg, "locale", ValidLocales) = {}
    /\ JunkTiers(arg, "brand", ValidBrands) # {}
    /\ Env("BRAND_DEFAULT") = Str(S_TrueWeb)
    /\ ret.brand = Str(S_trueweb)

\* C8: when valid values are present at several tiers, the result is the value of
\* the highest-priority of those tiers (case and surrounding whitespace ignored).
C8_HighestPriorityValidTierWins ==
    Resolved =>
        /\ (Cardinality(ValidTiers(arg, "brand", ValidBrands)) >= 2 =>
              ret.brand = Str(Folded(TierValue(arg, MinOf(ValidTiers(arg, "brand", ValidBrands)), "brand"))))
        /\ (Cardinality(ValidTiers(arg, "locale", ValidLocales)) >= 2 =>
              ret.locale = Str(Folded(TierValue(arg, MinOf(ValidTiers(arg, "locale", ValidLocales)), "locale"))))

\* C9: an unrecognized value above a valid one is treated as absent: the result is
\* the valid value of the lower tier, not the default and not the invalid value.
C9_InvalidValueIsSkipped ==
    Resolved =>
        /\ ((\E i \in JunkTiers(arg, "brand", ValidBrands) :
                \E j \in ValidTiers(arg, "brand", ValidBrands) : i < j) =>
              ret.brand = Str(Folded(TierValue(arg, MinOf(ValidTiers(arg, "brand", ValidBrands)), "brand"))))
        /\ ((\E i \in JunkTiers(arg, "locale", ValidLocales) :
                \E j \in ValidTiers(arg, "locale", ValidLocales) : i < j) =>
              ret.locale = Str(Folded(TierValue(arg, MinOf(ValidTiers(arg, "locale", ValidLocales)), "locale"))))


\* C8 holds on the events where no unrecognized value sits above the first valid
\* tier: the priority order itself is as the claim says.
PriorityOrderWithoutJunkAbove ==
    Resolved =>
        /\ (/\ ValidTiers(arg, "brand", ValidBrands) # {}
            /\ \A i \in JunkTiers(arg, "brand", ValidBrands) :
                  i > MinOf(ValidTiers(arg, "brand", ValidBrands))) =>
              ret.brand = Str(Folded(TierValue(arg, MinOf(ValidTiers(arg, "brand", ValidBrands)), "brand")))
        /\ (/\ ValidTiers(arg, "locale", ValidLocales) # {}
            /\ \A i \in JunkTiers(arg, "locale", ValidLocales) :
                  i > MinOf(ValidTiers(arg, "locale", ValidLocales))) =>
              ret.locale = Str(Folded(TierValue(arg, MinOf(ValidTiers(arg, "locale", ValidLocales)), "locale")))

\* obj with its metadata value for key replaced by v
WithKey(obj, key, v) ==
    IF obj.t = "object" /\ obj.metadata.t = "object"
    THEN [obj EXCEPT !.metadata.f = (key :> v) @@ @]
    ELSE IF v = Undef THEN obj
    ELSE Obj(Meta(key :> v))

\* the event a with the values of key at the four tiers replaced by alt[1..4]
Reshaped(a, key, alt) ==
    [a EXCEPT !.inv = WithKey(@, key, alt[1]),
              !.customer = WithKey(@, key, alt[2]),
              !.lineMeta.price = WithKey(@, key, alt[3]),
              !.lineMeta.product = WithKey(@, key, alt[4])]

BrandAlts == {Undef, Str(S_acme), Str(S_TrueWebPadded)}
LocaleAlts == {Undef, Str(S_de), Str(S_PLpadded)}

ResolveOf(a) == resolveBrandLocale(a.inv, a.customer, a.lineMeta)

\* C10: brand and locale are resolved independently: replacing the locale metadata
\* of an event at any tiers leaves the resolved brand as it was, and replacing the
\* brand metadata leaves the resolved locale as it was.
C10_BrandAndLocaleIndependent ==
    Resolved =>
        /\ \A alt \in [1..4 -> LocaleAlts] :
              ResolveOf(Reshaped(arg, "locale", alt)).brand = ret.brand
        /\ \A alt \in [1..4 -> BrandAlts] :
              ResolveOf(Reshaped(arg, "brand", alt)).locale = ret.locale

\* C10 witness: the brand matched at the invoice tier, the locale came from a
\* later tier.
C10_Witness ==
    /\ Resolved
    /\ Recognized(TierValue(arg, 1, "brand"), ValidBrands)
    /\ TierValue(arg, 1, "locale") = Undef
    /\ TierValue(arg, 2, "locale") = Undef
    /\ Recognized(TierValue(arg, 3, "locale"), {S_pl})
    /\ ret.brand = Str(S_yokweb)
    /\ ret.locale = Str(S_pl)


-----------------------------------------------------------------------------
(* index.js: brand configuration, suppression cache, SES helpers, recipient *)

S_euwest1    == <<"e","u","-","w","e","s","t","-","1">>
S_eucentral1 == <<"e","u","-","c","e","n","t","r","a","l","-","1">>

\* the properties every object literal inherits from Object.prototype
ObjectPrototypeKeys ==
    { <<"c","o","n","s","t","r","u","c","t","o","r">>,
      <<"_","_","p","r","o","t","o","_","_">>,
      <<"t","o","S","t","r","i","n","g">>,
      <<"t","o","L","o","c","a","l","e","S","t","r","i","n","g">>,
      <<"v","a","l","u","e","O","f">>,
      <<"h","a","s","O","w","n","P","r","o","p","e","r","t","y">>,
      <<"i","s","P","r","o","t","o","t","y","p","e","O","f">>,
      <<"p","r","o","p","e","r","t","y","I","s","E","n","u","m","e","r","a","b","l","e">>,
      <<"_","_","d","e","f","i","n","e","G","e","t","t","e","r","_","_">>,
      <<"_","_","d","e","f","i","n","e","S","e","t","t","e","r","_","_">>,
      <<"_","_","l","o","o","k","u","p","G","e","t","t","e","r","_","_">>,
      <<"_","_","l","o","o","k","u","p","S","e","t","t","e","r","_","_">> }

\* const BRAND_CFG = { yokweb: {...}, trueweb: {...} }; BRAND_CFG[brand]: an own
\* entry, or a property inherited from Object.prototype (a function or the
\* prototype itself: truthy, and without region, from or replyTo)
BRAND_CFG(brand) ==
    IF brand = Str(S_yokweb)
    THEN [t |-> "object", key |-> S_yokweb, region |-> Str(S_euwest1)]
    ELSE IF brand = Str(S_trueweb)
    THEN [t |-> "object", key |-> S_trueweb, region |-> Str(S_eucentral1)]
    ELSE IF brand.t = "string" /\ brand.s \in ObjectPrototypeKeys
    THEN [t |-> "object", key |-> brand.s, region |-> Undef]
    ELSE Undef

\* suppressed.delete(email)
MapDelete(map, email) == [e \in DOMAIN map \ {email} |-> map[e]]

\* suppressed.set(email, ts)
MapSet(map, email, ts) == [e \in DOMAIN map \cup {email} |-> IF e = email THEN ts ELSE map[e]]

\* isSuppressed without the TTL test: a record never expires
isSuppressed_NoExpiry(map, email, t) ==
    [result |-> MapGet(map, email) # 0, map |-> map]

\* isSuppressed that evicts whatever it finds and reports it absent
isSuppressed_AlwaysEvict(map, email, t) ==
    [result |-> FALSE, map |-> MapDelete(map, email)]

\* function isSuppressed(email): the result and the map it leaves behind
isSuppressed(map, email, t) ==
    LET ts == MapGet(map, email) IN
    IF ts = 0 THEN [result |-> FALSE, map |-> map]
    ELSE IF t - ts > SUPPRESS_TTL_MS THEN [result |-> FALSE, map |-> MapDelete(map, email)]
    ELSE [result |-> TRUE, map |-> map]

\* noteSuppressed that records nothing
noteSuppressed_Forget(map, email, t) == map

\* function noteSuppressed(email)
noteSuppressed(map, email, t) == MapSet(map, email, t)

S_notfoundexception == <<"n","o","t","f","o","u","n","d","e","x","c","e","p","t","i","o","n">>
S_NotFoundException == <<"N","o","t","F","o","u","n","d","E","x","c","e","p","t","i","o","n">>
S_ThrottlingException == <<"T","h","r","o","t","t","l","i","n","g","E","x","c","e","p","t","i","o","n">>
S_BOUNCE == <<"B","O","U","N","C","E">>

\* what ses.send(GetSuppressedDestinationCommand) may do: resolve with or without
\* SuppressionAttributes.Reason, or reject with a named error
SesReplies ==
    { [k |-> "resp", Reason |-> Str(S_BOUNCE)],
      [k |-> "throw", name |-> Str(S_NotFoundException)],
      [k |-> "throw", name |-> Str(S_ThrottlingException)] }

\* isSuppressedInSES that fails closed: an error other than not-found denies
isSuppressedInSES_FailClosed(r) ==
    IF r.k = "resp" THEN Truthy(r.Reason)
    ELSE ~Contains(FoldAscii(JsOr(r.name, Str(<<>>)).s), S_notfoundexception)

\* async function isSuppressedInSES({ region, email }), as a function of the reply
isSuppressedInSES(r) ==
    IF r.k = "resp" THEN (IF Truthy(r.Reason) THEN TRUE ELSE FALSE)
    ELSE IF Contains(FoldAscii(JsOr(r.name, Str(<<>>)).s), S_notfoundexception) THEN FALSE
    ELSE FALSE

S_example == <<"@","e","x","a","m","p","l","e",".","c","o","m">>

\* resolveRecipient that prefers the account email to the customer email
resolveRecipient_AccountFirst(inv) ==
    LET invEmail == JsOr(JsOr(inv.account_email, inv.customer_email), NullV)
        testTo == Env("TEST_TO")
    IN IF Truthy(testTo)
          /\ (~Truthy(invEmail) \/ EndsWith(FoldAscii(invEmail.s), S_example))
       THEN testTo
       ELSE invEmail

\* resolveRecipient that drops a reserved-domain address when there is no test
\* address to route it to
resolveRecipient_DropsExample(inv) ==
    LET invEmail == JsOr(JsOr(inv.customer_email, inv.account_email), NullV)
        testTo == Env("TEST_TO")
    IN IF ~Truthy(invEmail) \/ EndsWith(FoldAscii(invEmail.s), S_example)
       THEN (IF Truthy(testTo) THEN testTo ELSE NullV)
       ELSE invEmail

\* function resolveRecipient(inv)
resolveRecipient(inv) ==
    LET invEmail == JsOr(JsOr(inv.customer_email, inv.account_email), NullV)
        testTo == Env("TEST_TO")
    IN IF Truthy(testTo)
          /\ (~Truthy(invEmail) \/ EndsWith(FoldAscii(invEmail.s), S_example))
       THEN testTo
       ELSE invEmail

S_suppression_list == <<"s","u","p","p","r","e","s","s","i","o","n"," ","l","i","s","t">>
S_suppressed == <<"s","u","p","p","r","e","s","s","e","d">>
S_complaint == <<"c","o","m","p","l","a","i","n","t">>

\* Error.prototype.toString()
ErrToString(err) ==
    IF err.message = <<>> THEN err.name
    ELSE IF err.name = <<>> THEN err.message
    ELSE err.name \o <<":", " ">> \o err.message

\* String(err && (err.message || err.toString() || ""))
ErrText(err) == JsOr(JsOr(Str(err.message), Str(ErrToString(err))), Str(<<>>)).s

\* the same test without the i flag
RejectionIndicated_CaseSensitive(msg) ==
    Contains(msg, S_suppression_list) \/ Contains(msg, S_suppressed) \/ Contains(msg, S_complaint)

\* /suppression list|suppressed|complaint/i.test(msg)
RejectionIndicated(msg) ==
    LET m == FoldAscii(msg) IN
    Contains(m, S_suppression_list) \/ Contains(m, S_suppressed) \/ Contains(m, S_complaint)


-----------------------------------------------------------------------------
(* Inbound events and what Stripe holds for them *)

S_a  == <<"a","@","x",".","i","o">>
S_b  == <<"b","@","x",".","i","o">>
S_t  == <<"t","@","E","x","a","m","p","l","e",".","C","O","M">>
S_qa == <<"q","a","@","x",".","i","o">>
S_cus  == <<"c","u","s","_","1">>
S_prod == <<"p","r","o","d","_","1">>
S_invoice_paid == <<"i","n","v","o","i","c","e","-","p","a","i","d">>

Customer(email, meta) == [t |-> "object", email |-> email, metadata |-> meta]
Product(meta) == [t |-> "object", metadata |-> meta]
Price(meta, product) == [t |-> "object", metadata |-> meta, product |-> product]
Line(price) == [t |-> "object", price |-> price]

\* the events the source may deliver: the event type, whether the signature
\* verifies, and the invoice with its customer and first line as Stripe holds them
Events ==
    << [type |-> "invoice.payment_failed", sigOk |-> TRUE,
        customer_email |-> Str(S_a), account_email |-> NullV,
        metadata |-> Meta([x \in {} |-> Undef]), customer |-> NullV, line |-> Undef],
       [type |-> "invoice.paid", sigOk |-> TRUE,
        customer_email |-> Str(S_a), account_email |-> Str(S_t),
        metadata |-> Meta([brand |-> Str(S_TrueWebPadded)]),
        customer |-> Customer(Str(S_b), Meta([locale |-> Str(S_PLpadded)])),
        line |-> Undef],
       [type |-> "invoice.paid", sigOk |-> TRUE,
        customer_email |-> NullV, account_email |-> NullV,
        metadata |-> Meta([brand |-> Str(S_acme), locale |-> Str(S_de)]),
        customer |-> Customer(Str(S_b), Meta([brand |-> Str(S_YOKWEB)])),
        line |-> Line(Price(Meta([locale |-> Str(S_PLpadded)]),
                            Product(Meta([brand |-> Str(S_trueweb)]))))],
       [type |-> "invoice.paid", sigOk |-> TRUE,
        customer_email |-> NullV, account_email |-> Str(S_t),
        metadata |-> Undef, customer |-> NullV, line |-> Undef],
       [type |-> "invoice.paid", sigOk |-> FALSE,
        customer_email |-> Str(S_a), account_email |-> NullV,
        metadata |-> Undef, customer |-> NullV, line |-> Undef],
       [type |-> "customer.created", sigOk |-> TRUE,
        customer_email |-> Str(S_a), account_email |-> NullV,
        metadata |-> Undef, customer |-> NullV, line |-> Undef] >>

\* event.data.object: the customer and the product are ids, not objects
InvPayload(e) ==
    [t |-> "object",
     customer_email |-> e.customer_email, account_email |-> e.account_email,
     metadata |-> e.metadata,
     customer |-> IF e.customer.t = "object" THEN Str(S_cus) ELSE NullV,
     line |-> IF e.line.t = "object"
              THEN Line([e.line.price EXCEPT
                           !.product = IF @.t = "object" THEN Str(S_prod) ELSE @])
              ELSE Undef]

\* stripe.invoices.retrieve(id, {expand: ["lines.data.price.product", "customer"]})
InvExpanded(e) ==
    [t |-> "object",
     customer_email |-> e.customer_email, account_email |-> e.account_email,
     metadata |-> e.metadata, customer |-> e.customer, line |-> e.line]

\* the handler's inv: the expanded invoice, or the payload when expansion failed
InvOf(e, expanded) == IF expanded THEN InvExpanded(e) ELSE InvPayload(e)

\* what ses.send(SendEmailCommand) may reject with
SendErrors ==
    { [name |-> <<"M","e","s","s","a","g","e","R","e","j","e","c","t","e","d">>, message |-> <<"R","e","c","i","p","i","e","n","t"," ","i","s"," ","S","U","P","P","R","E","S","S","E","D">>],
      [name |-> <<"T","h","r","o","t","t","l","i","n","g">>, message |-> <<"R","a","t","e"," ","e","x","c","e","e","d","e","d">>] }

SendReplies == {[k |-> "ok"]} \cup {[k |-> "throw", err |-> e] : e \in SendErrors}

\* the environments the process may be started in
PipelineEnvs ==
    { EnvOf(Undef, Undef, Str(S_bucket), Str(S_secret)),
      EnvOf(Str(S_TrueWeb), Str(S_qa), Str(S_bucket), Str(S_secret)),
      EnvOf(Str(S_Acme), Undef, Undef, Str(S_secret)),
      EnvOf(Undef, Undef, Undef, Undef) }

MaxEvents == 2
MaxTicks == 2

\* the clock advances by a little more than half the TTL: a record is live after
\* one step and expired after two
TickSteps == {SUPPRESS_TTL_MS \div 2 + 1}


-----------------------------------------------------------------------------
(* index.js: the /webhook handler, one action per resumption of the async     *)
(* function; the code between two awaits runs without interleaving            *)

\* the registry answered with a suppression reason for the address
DefinitiveSuppression(r) == r.k = "resp" /\ Truthy(r.Reason)

\* the words that mark a recipient-level rejection in a send failure's text
Indicators == {S_suppression_list, S_suppressed, S_complaint}

\* the send failed and its error text carries an indicator, in any letter case
RecipientRejection(r) ==
    r.k = "throw" /\ \E w \in Indicators : Contains(FoldAscii(ErrText(r.err)), w)

\* res.json(body), res.status(n).send(...)
Json(body) == [status |-> 200, body |-> body]
Status(n) == [status |-> n]

\* the handler returns after responding
Finish(h, locals, lg, r) ==
    /\ pc' = [pc EXCEPT ![h] = "done"]
    /\ hs' = [hs EXCEPT ![h] = locals]
    /\ log' = [log EXCEPT ![h] = lg]
    /\ resp' = [resp EXCEPT ![h] = r]

\* the awaits a handler may be suspended at
InFlight == {"invoice", "customer", "ses", "render", "send"}

\* an exception leaves the async handler: the promise it returned rejects. What
\* follows is decided by the installed framework, which the repository does not
\* pin: Express 5 passes the rejection to its error handler, which answers 500;
\* Express 4 drops the promise, and Node 20 ends the process on the unhandled
\* rejection, so that no handler in flight ever answers
Crash(h, locals, lg) ==
    /\ hs' = [hs EXCEPT ![h] = locals]
    /\ log' = [log EXCEPT ![h] = lg]
    /\ \/ /\ pc' = [pc EXCEPT ![h] = "crashed"]
          /\ resp' = [resp EXCEPT ![h] = Status(500)]
       \/ /\ pc' = [g \in Handlers |->
                       IF g = h \/ pc[g] \in InFlight THEN "exited" ELSE pc[g]]
          /\ UNCHANGED resp

\* the process has not ended
Running == \A g \in Handlers : pc[g] # "exited"

\* the handler suspends at the await named p
Await(h, p, locals, lg) ==
    /\ pc' = [pc EXCEPT ![h] = p]
    /\ hs' = [hs EXCEPT ![h] = locals]
    /\ log' = [log EXCEPT ![h] = lg]
    /\ UNCHANGED resp

Rest == UNCHANGED <<env, now, ev, nEvents, nTicks, arg, ret>>
SameNoted == UNCHANGED noted

\* index.js:364-372: the service id, from invoice, price, product metadata
ServiceOf(inv, lineMeta) ==
    JsOr(JsOr(JsOr(JsOr(JsOr(JsOr(pickMeta(inv, "service"), pickMeta(inv, "serviceid")),
                             pickMeta(LinePrice(lineMeta), "service")),
                        pickMeta(LinePrice(lineMeta), "serviceid")),
                   pickMeta(LineProduct(lineMeta), "service")),
              pickMeta(LineProduct(lineMeta), "serviceid")),
         Str(S_invoice_paid))

\* a handler without the event type test: every authenticated event is treated as
\* a paid invoice
Receive_AnyType(h, e) ==
    /\ nEvents < MaxEvents
    /\ pc[h] \in {"idle", "done", "crashed"}
    /\ Running
    /\ nEvents' = nEvents + 1
    /\ ev' = [ev EXCEPT ![h] = e]
    /\ IF ~Truthy(Env("STRIPE_WEBHOOK_SECRET")) \/ ~Truthy(Env("STRIPE_SECRET_KEY"))
       THEN Finish(h, Fresh, <<>>, Status(500))
       ELSE IF ~Events[e].sigOk
       THEN Finish(h, Fresh, <<>>, Status(400))
       ELSE /\ pc' = [pc EXCEPT ![h] = "invoice"]
            /\ hs' = [hs EXCEPT ![h] = Fresh]
            /\ log' = [log EXCEPT ![h] = <<"invoices.retrieve">>]
            /\ resp' = [resp EXCEPT ![h] = NullV]
    /\ UNCHANGED <<env, now, suppressed, nTicks, noted, arg, ret>>

\* index.js:294: the event type the handler acts on
HandledTypes == {"invoice.paid"}

\* index.js:272-308: configuration, signature, event type, invoice expansion
Receive(h, e) ==
    /\ nEvents < MaxEvents
    /\ pc[h] \in {"idle", "done", "crashed"}
    /\ Running
    /\ nEvents' = nEvents + 1
    /\ ev' = [ev EXCEPT ![h] = e]
    /\ IF ~Truthy(Env("STRIPE_WEBHOOK_SECRET")) \/ ~Truthy(Env("STRIPE_SECRET_KEY"))
       THEN Finish(h, Fresh, <<>>, Status(500))
       ELSE IF ~Events[e].sigOk
       THEN Finish(h, Fresh, <<>>, Status(400))
       ELSE IF Events[e].type \notin HandledTypes
       THEN Finish(h, Fresh, <<>>, Json([received |-> TRUE]))
       ELSE /\ pc' = [pc EXCEPT ![h] = "invoice"]
            /\ hs' = [hs EXCEPT ![h] = Fresh]
            /\ log' = [log EXCEPT ![h] = <<"invoices.retrieve">>]
            /\ resp' = [resp EXCEPT ![h] = NullV]
    /\ UNCHANGED <<env, now, suppressed, nTicks, noted, arg, ret>>

\* the handler of the revisions before the suppression gate (part_002:218-303):
\* recipient, sender, then straight to the content and the send
Proceed_NoGate(h, expanded, customerObj) ==
    LET inv == InvOf(Events[ev[h]], expanded)
        lineMeta == LineMetaOf(inv)
        bl == resolveBrandLocale(inv, customerObj, lineMeta)
        to == JsOr(JsOr(resolveRecipient(inv),
                        IF customerObj.t = "object" THEN customerObj.email ELSE Undef),
                   NullV)
        base == [hs[h] EXCEPT !.expanded = expanded, !.customerObj = customerObj,
                              !.brand = bl.brand, !.locale = bl.locale, !.to = to]
        cfg == JsOr(BRAND_CFG(bl.brand), BRAND_CFG(BRAND_DEFAULT))
    IN /\ UNCHANGED suppressed
       /\ IF ~Truthy(to)
          THEN Finish(h, base, log[h], Json([received |-> TRUE, mailed |-> FALSE]))
          ELSE IF cfg.t # "object"
          THEN Crash(h, base, log[h])
          ELSE Await(h, "render", [base EXCEPT !.cfg = cfg], log[h] \o <<"renderEmail">>)

\* index.js:321-362: line metadata, brand and locale, recipient, local gate, and
\* the call of the authoritative lookup
Proceed(h, expanded, customerObj) ==
    LET inv == InvOf(Events[ev[h]], expanded)
        lineMeta == LineMetaOf(inv)
        bl == resolveBrandLocale(inv, customerObj, lineMeta)
        to == JsOr(JsOr(resolveRecipient(inv),
                        IF customerObj.t = "object" THEN customerObj.email ELSE Undef),
                   NullV)
        base == [hs[h] EXCEPT !.expanded = expanded, !.customerObj = customerObj,
                              !.brand = bl.brand, !.locale = bl.locale, !.to = to]
    IN IF ~Truthy(to)
       THEN /\ Finish(h, base, log[h], Json([received |-> TRUE, mailed |-> FALSE]))
            /\ UNCHANGED suppressed
       ELSE LET chk == isSuppressed(suppressed, to.s, now)
                cfg == JsOr(BRAND_CFG(bl.brand), BRAND_CFG(BRAND_DEFAULT))
                gated == [base EXCEPT !.gate =
                            [rec |-> AgeClass(MapGet(suppressed, to.s), now),
                             ses |-> AgeClass(MapGet(noted.ses, to.s), now),
                             send |-> AgeClass(MapGet(noted.send, to.s), now)]]
                lg == log[h] \o <<"isSuppressed">>
            IN /\ suppressed' = chk.map
               /\ IF chk.result
                  THEN Finish(h, gated, lg \o <<"deny">>,
                              Json([received |-> TRUE, mailed |-> FALSE, suppressed |-> "true"]))
                  ELSE IF cfg.t # "object"
                  THEN Crash(h, gated, lg)
                  ELSE Await(h, "ses", [gated EXCEPT !.cfg = cfg], lg \o <<"isSuppressedInSES">>)

\* index.js:301-319: stripe.invoices.retrieve settled; the customer is retrieved
\* when the invoice holds only its id
InvoiceReply(h, ok) ==
    /\ pc[h] = "invoice"
    /\ LET inv == InvOf(Events[ev[h]], ok) IN
       IF inv.customer.t = "string"
       THEN /\ Await(h, "customer", [hs[h] EXCEPT !.expanded = ok],
                     log[h] \o <<"customers.retrieve">>)
            /\ UNCHANGED suppressed
       ELSE Proceed(h, ok,
                    IF inv.customer.t = "object"
                       /\ (Truthy(inv.customer.email) \/ Truthy(inv.customer.metadata))
                    THEN inv.customer ELSE NullV)
    /\ SameNoted
    /\ Rest

\* index.js:311-319: stripe.customers.retrieve settled
CustomerReply(h, ok) ==
    /\ pc[h] = "customer"
    /\ Proceed(h, hs[h].expanded, IF ok THEN Events[ev[h]].customer ELSE NullV)
    /\ SameNoted
    /\ Rest

\* index.js:358-413: the authoritative lookup settled; on allow the service id
\* and the template data are derived and renderEmail is called
SesReply(h, r) ==
    /\ pc[h] = "ses"
    /\ r \in SesReplies
    /\ LET inv == InvOf(Events[ev[h]], hs[h].expanded)
           service == ServiceOf(inv, LineMetaOf(inv))
           me == [hs[h] EXCEPT !.sesReply = r]
       IN IF isSuppressedInSES(r)
          THEN /\ suppressed' = noteSuppressed(suppressed, hs[h].to.s, now)
               /\ Finish(h, me, log[h] \o <<"deny">>,
                         Json([received |-> TRUE, mailed |-> FALSE, suppressed |-> "ses"]))
          ELSE /\ UNCHANGED suppressed
               /\ Await(h, "render", [me EXCEPT !.service = service],
                        log[h] \o <<"allow", "renderEmail">>)
    /\ noted' = IF DefinitiveSuppression(r)
                THEN [noted EXCEPT !.ses = MapSet(@, hs[h].to.s, now)]
                ELSE noted
    /\ Rest

\* how renderEmail may settle: with {html, text, subject}, or rejected (the brand
\* file cannot be read or parsed, the style sheet fetch rejects)
RenderReplies == {"ok", "throw"}

\* renderEmail.js:84-118 seen from the handler's await, and index.js:416-428: on
\* a result sendWithSES is called; a rejection leaves the handler
RenderReply(h, r) ==
    /\ pc[h] = "render"
    /\ r \in RenderReplies
    /\ IF r = "throw" \/ ~Truthy(JsOr(Env("ASSETS_BUCKET"), Str(<<>>)))
       THEN Crash(h, [hs[h] EXCEPT !.sesReply = NullV], log[h])
       ELSE Await(h, "send", [hs[h] EXCEPT !.sesReply = NullV], log[h] \o <<"sendWithSES">>)
    /\ UNCHANGED suppressed
    /\ SameNoted
    /\ Rest

\* a handler that calls the transport again when the send failed
SendReply_Retry(h, r) ==
    /\ pc[h] = "send"
    /\ r \in SendReplies
    /\ LET me == [hs[h] EXCEPT !.sendReply = r] IN
       IF r.k = "ok"
       THEN Finish(h, me, log[h], Json([received |-> TRUE, mailed |-> TRUE]))
       ELSE Await(h, "send", me, log[h] \o <<"sendWithSES">>)
    /\ UNCHANGED suppressed
    /\ SameNoted
    /\ Rest

\* a handler that records the address after every failed send, whatever the text
SendReply_NoteAlways(h, r) ==
    /\ pc[h] = "send"
    /\ r \in SendReplies
    /\ LET me == [hs[h] EXCEPT !.sendReply = r] IN
       IF r.k = "ok"
       THEN /\ Finish(h, me, log[h], Json([received |-> TRUE, mailed |-> TRUE]))
            /\ UNCHANGED suppressed
       ELSE /\ suppressed' = noteSuppressed(suppressed, me.to.s, now)
            /\ Finish(h, me, log[h],
                      Json([received |-> TRUE, mailed |-> FALSE, error |-> "ses_send_failed"]))
    /\ noted' = IF RecipientRejection(r)
                THEN [noted EXCEPT !.send = MapSet(@, hs[h].to.s, now)]
                ELSE noted
    /\ Rest

\* index.js:416-439: ses.send(SendEmailCommand) settled
SendReply(h, r) ==
    /\ pc[h] = "send"
    /\ r \in SendReplies
    /\ LET me == [hs[h] EXCEPT !.sendReply = r] IN
       IF r.k = "ok"
       THEN /\ Finish(h, me, log[h], Json([received |-> TRUE, mailed |-> TRUE]))
            /\ UNCHANGED suppressed
       ELSE /\ suppressed' = IF RejectionIndicated(ErrText(r.err))
                             THEN noteSuppressed(suppressed, me.to.s, now)
                             ELSE suppressed
            /\ Finish(h, me, log[h],
                      Json([received |-> TRUE, mailed |-> FALSE, error |-> "ses_send_failed"]))
    /\ noted' = IF RecipientRejection(r)
                THEN [noted EXCEPT !.send = MapSet(@, hs[h].to.s, now)]
                ELSE noted
    /\ Rest

\* time passes
Tick(d) ==
    /\ nTicks < MaxTicks
    /\ nTicks' = nTicks + 1
    /\ now' = now + d
    /\ UNCHANGED <<env, suppressed, pc, ev, hs, log, resp, nEvents, noted, arg, ret>>

Init ==
    /\ Quiet
    /\ env \in PipelineEnvs
    /\ arg = NullV
    /\ ret = NullV

Next ==
    \/ \E h \in Handlers, e \in 1..Len(Events) : Receive(h, e)
    \/ \E h \in Handlers, ok \in BOOLEAN : InvoiceReply(h, ok)
    \/ \E h \in Handlers, ok \in BOOLEAN : CustomerReply(h, ok)
    \/ \E h \in Handlers, r \in SesReplies : SesReply(h, r)
    \/ \E h \in Handlers, r \in RenderReplies : RenderReply(h, r)
    \/ \E h \in Handlers, r \in SendReplies : SendReply(h, r)
    \/ \E d \in TickSteps : Tick(d)

Spec == Init /\ [][Next]_vars


-----------------------------------------------------------------------------
(* Vocabulary of the pipeline claims *)

Count(lg, tok) == Cardinality({i \in 1..Len(lg) : lg[i] = tok})
Positions(lg, toks) == {i \in 1..Len(lg) : lg[i] \in toks}

\* the response acknowledges the event and says that no mail was sent
NotMailed(r) ==
    /\ "status" \in DOMAIN r
    /\ r.status = 200
    /\ r.body.received = TRUE
    /\ "mailed" \in DOMAIN r.body
    /\ r.body.mailed = FALSE

\* the handler was denied by the local check: nothing was called after it
DeniedLocally(h) ==
    /\ pc[h] = "done"
    /\ NotMailed(resp[h])
    /\ Len(log[h]) >= 2
    /\ log[h][Len(log[h]) - 1] = "isSuppressed"
    /\ log[h][Len(log[h])] = "deny"
    /\ Count(log[h], "isSuppressedInSES") = 0
    /\ Count(log[h], "renderEmail") = 0
    /\ Count(log[h], "sendWithSES") = 0

\* C1: a recipient whose local suppression record is younger than the TTL is
\* denied (received:true, mailed:false) with no call of the remote registry and no
\* call of the transport.
C1_LocalSuppressionDeniesWithoutRemoteCalls ==
    \A h \in Handlers :
        hs[h].gate.rec = "young" =>
            /\ pc[h] = "done"
            /\ NotMailed(resp[h])
            /\ Count(log[h], "isSuppressedInSES") = 0
            /\ Count(log[h], "sendWithSES") = 0

\* C1 witness: a handler found a young record for its recipient and has responded.
C1_Witness ==
    \E h \in Handlers :
        /\ hs[h].gate.rec = "young"
        /\ pc[h] = "done"
        /\ Truthy(hs[h].to)
        /\ hs[h].to.s \in DOMAIN suppressed

RenderOrSend == {"renderEmail", "sendWithSES"}

\* C2: the gate (local check, then authoritative lookup) is evaluated once and has
\* allowed before renderEmail or sendWithSES is called; after a denial neither is
\* ever called for the event.
C2_GateOnceBeforeRenderAndSend ==
    \A h \in Handlers :
        LET L == log[h] IN
        /\ Count(L, "isSuppressed") <= 1
        /\ Count(L, "isSuppressedInSES") <= 1
        /\ \A i \in Positions(L, RenderOrSend) :
              \E a \in 1..(i - 1) :
                 /\ L[a] = "allow"
                 /\ \E j \in 1..(a - 1) :
                       /\ L[j] = "isSuppressedInSES"
                       /\ \E k \in 1..(j - 1) : L[k] = "isSuppressed"
        /\ Count(L, "deny") > 0 =>
              /\ Positions(L, RenderOrSend) = {}
              /\ Count(L, "isSuppressed") = 1
              /\ pc[h] = "done"
              /\ NotMailed(resp[h])

\* C2 witness: one handler has sent after its gate allowed, another was denied by
\* the authoritative lookup.
C2_Witness ==
    \E h, g \in Handlers :
        /\ Count(log[h], "sendWithSES") = 1
        /\ Count(log[h], "allow") = 1
        /\ pc[h] = "done"
        /\ Count(log[g], "isSuppressedInSES") = 1
        /\ Count(log[g], "deny") = 1

\* the handler is consuming, or was stopped by, a definitive suppression answer
DeniedBySES(h) == hs[h].sesReply # NullV /\ DefinitiveSuppression(hs[h].sesReply)

\* the step in which handler h receives the registry's answer
SesStep(h) == pc[h] = "ses" /\ pc'[h] \in {"render", "done"}

\* C3: a suppression reason from the authoritative lookup denies the event (no
\* send, mailed:false) and writes the address into the local cache, and every
\* event that looks the address up within 24 hours of that is denied by the local
\* check without another authoritative lookup.
C3_DefinitiveSuppressionIsCached ==
    /\ [](\A h \in Handlers :
            /\ DeniedBySES(h) =>
                  /\ pc[h] = "done"
                  /\ NotMailed(resp[h])
                  /\ Count(log[h], "sendWithSES") = 0
            /\ hs[h].gate.ses = "young" => DeniedLocally(h))
    /\ [][\A h \in Handlers :
            (SesStep(h) /\ DefinitiveSuppression(hs'[h].sesReply)) =>
                MapGet(suppressed', hs[h].to.s) = now]_vars

\* C3 witness: an event was denied locally within the TTL of an authoritative
\* denial of its address.
C3_Witness ==
    \E h \in Handlers : hs[h].gate.ses = "young" /\ DeniedLocally(h) /\ now > StartNow

\* the registry's answer was an error: not-found or any other
FailedOpen(h) == hs[h].sesReply # NullV /\ hs[h].sesReply.k = "throw"

\* C4: when the lookup answers not-found or fails with any other error the gate
\* allows: the handler goes on to renderEmail (where it stays unless the process
\* ends under it), an allowed event that completes has called sendWithSES, and
\* the local suppression cache is left as it was.
C4_AuthoritativeCheckFailsOpen ==
    /\ [](\A h \in Handlers :
            /\ FailedOpen(h) =>
                  /\ pc[h] \in {"render", "exited"}
                  /\ resp[h] = NullV
                  /\ log[h][Len(log[h]) - 1] = "allow"
                  /\ log[h][Len(log[h])] = "renderEmail"
            /\ (Count(log[h], "allow") > 0 /\ pc[h] = "done") =>
                  Count(log[h], "sendWithSES") = 1)
    /\ [][\A h \in Handlers :
            (SesStep(h) /\ hs'[h].sesReply.k = "throw") =>
                pc'[h] = "render" /\ suppressed' = suppressed]_vars

\* C4 witness: the lookup failed with an error other than not-found while the
\* cache held a record, and the handler is rendering.
C4_Witness ==
    \E h \in Handlers :
        /\ FailedOpen(h)
        /\ hs[h].sesReply.name = Str(S_ThrottlingException)
        /\ pc[h] = "render"
        /\ suppressed # EmptyMap

\* the step in which handler h receives the transport's answer
SendStep(h) == pc[h] = "send" /\ pc'[h] = "done"

\* C5: a send failure whose text carries a rejection indicator adds the address
\* to the local cache, and every event that looks the address up within the TTL of
\* that is denied without a send.
C5_RejectedRecipientIsSuppressed ==
    /\ [](\A h \in Handlers : hs[h].gate.send = "young" => DeniedLocally(h))
    /\ [][\A h \in Handlers :
            (SendStep(h) /\ RecipientRejection(hs'[h].sendReply)) =>
                MapGet(suppressed', hs[h].to.s) = now]_vars

\* C5 witness: an event was denied locally within the TTL of a rejected send to
\* its address.
C5_Witness ==
    \E h \in Handlers : hs[h].gate.send = "young" /\ DeniedLocally(h) /\ now > StartNow

\* the step in which handler h looks its recipient up in the local cache
GateStep(h) == hs[h].gate.rec = "unseen" /\ hs'[h].gate.rec # "unseen"

\* C6: a lookup that finds a record older than the TTL reports the address not
\* suppressed and removes the record; one that finds a record younger than the TTL
\* reports it suppressed and leaves the record as it is; no lookup changes the
\* record of another address.
C6_ExpiredRecordsAreEvictedOnLookup ==
    [][\A h \in Handlers :
         GateStep(h) =>
            LET e == hs'[h].to.s IN
            /\ hs'[h].gate.rec = "old" =>
                  /\ e \notin DOMAIN suppressed'
                  /\ Count(log'[h], "deny") = 0
                  /\ log'[h][Len(log[h]) + 1] = "isSuppressed"
            /\ hs'[h].gate.rec = "young" =>
                  /\ e \in DOMAIN suppressed'
                  /\ suppressed'[e] = suppressed[e]
                  /\ log'[h] = log[h] \o <<"isSuppressed", "deny">>
            /\ \A o \in (DOMAIN suppressed \cup DOMAIN suppressed') \ {e} :
                  MapGet(suppressed', o) = MapGet(suppressed, o)]_vars

\* C6 witness: a handler found an expired record for its recipient, the record is
\* gone, and the handler has gone on to the authoritative lookup.
C6_Witness ==
    \E h \in Handlers :
        /\ hs[h].gate.rec = "old"
        /\ hs[h].to.s \notin DOMAIN suppressed
        /\ pc[h] = "ses"

-----------------------------------------------------------------------------
(* Resolution results and the recipient *)

\* C11: every resolution returns a brand of the enumerated set, one that has a
\* sender configuration, and a locale of the enumerated set {en, pl}.
C11_ResolutionStaysInEnumeratedSets ==
    Resolved =>
        /\ IsStr(ret.brand)
        /\ ret.brand.s \in ValidBrands
        /\ BRAND_CFG(ret.brand).t = "object"
        /\ IsStr(ret.locale)
        /\ ret.locale.s \in ValidLocales

\* the handler has resolved brand, locale and recipient for its event
AfterResolution(h) == hs[h].brand # NullV

\* the first present value of a sequence of candidates, null when none is
FirstPresent(c) ==
    IF \E i \in 1..Len(c) : Truthy(c[i])
    THEN c[CHOOSE i \in 1..Len(c) : Truthy(c[i]) /\ \A j \in 1..(i - 1) : ~Truthy(c[j])]
    ELSE NullV

\* the three candidates of handler h in priority order: the invoice's
\* customer_email, its account_email, the resolved customer record's email
CandidatesOf(h) ==
    LET inv == InvOf(Events[ev[h]], hs[h].expanded) IN
    << inv.customer_email, inv.account_email,
       IF hs[h].customerObj.t = "object" THEN hs[h].customerObj.email ELSE NullV >>

ReservedDomain(v) == IsStr(v) /\ EndsWith(FoldAscii(v.s), S_example)

\* C12: with no test-routing address configured the destination is the first
\* present of customer_email, account_email and the customer record's email, and
\* it is one address.
C12_RecipientByPriority ==
    \A h \in Handlers :
        (AfterResolution(h) /\ ~Truthy(Env("TEST_TO"))) =>
            /\ hs[h].to = FirstPresent(CandidatesOf(h))
            /\ hs[h].to = NullV \/ IsStr(hs[h].to)

\* C12 witness: one handler took the invoice's customer_email although an account
\* email was present, another took the customer record's email because the invoice
\* carried none.
C12_Witness ==
    /\ ~Truthy(Env("TEST_TO"))
    /\ \E h, g \in Handlers :
          /\ AfterResolution(h)
          /\ Truthy(CandidatesOf(h)[1]) /\ Truthy(CandidatesOf(h)[2])
          /\ hs[h].to = CandidatesOf(h)[1]
          /\ AfterResolution(g)
          /\ ~Truthy(CandidatesOf(g)[1]) /\ ~Truthy(CandidatesOf(g)[2])
          /\ hs[g].to = CandidatesOf(g)[3]
          /\ Truthy(hs[g].to)

\* C13: with TEST_TO configured the destination is TEST_TO exactly when none of
\* the three candidates exists or the candidate chosen by priority is in the
\* reserved example.com domain; otherwise it is the chosen candidate.
C13_TestRoutingOnlyWithoutRealCandidate ==
    \A h \in Handlers :
        (AfterResolution(h) /\ Truthy(Env("TEST_TO"))) =>
            LET chosen == FirstPresent(CandidatesOf(h)) IN
            IF ~Truthy(chosen) \/ ReservedDomain(chosen)
            THEN hs[h].to = Env("TEST_TO")
            ELSE hs[h].to = chosen

\* C14: the recipient is absent only when no candidate exists and no test-routing
\* address is configured; the event is then acknowledged with received:true and
\* mailed:false, with no suppression lookup, no rendering and no send.
C14_NoRecipientIsAcknowledgedUnmailed ==
    \A h \in Handlers :
        (AfterResolution(h) /\ ~Truthy(hs[h].to)) =>
            /\ ~Truthy(FirstPresent(CandidatesOf(h)))
            /\ ~Truthy(Env("TEST_TO"))
            /\ pc[h] = "done"
            /\ NotMailed(resp[h])
            /\ Count(log[h], "isSuppressed") = 0
            /\ Count(log[h], "isSuppressedInSES") = 0
            /\ Count(log[h], "renderEmail") = 0
            /\ Count(log[h], "sendWithSES") = 0

\* C14 witness: an invoice-paid event whose invoice and customer carry no address
\* was answered.
C14_Witness ==
    \E h \in Handlers :
        /\ AfterResolution(h)
        /\ ~Truthy(hs[h].to)
        /\ Events[ev[h]].type = "invoice.paid"
        /\ pc[h] = "done"

\* C15: whatever the remote collaborators do, no exception leaves the handler and
\* a handling that has ended has answered the event.
C15_EveryFailureIsAcknowledged ==
    \A h \in Handlers :
        /\ pc[h] # "crashed"
        /\ pc[h] = "done" => resp[h] # NullV

\* C16: the transport is called at most once for an event; a failed send is
\* acknowledged with received:true and mailed:false and is not repeated.
C16_SendIsNeverRetried ==
    \A h \in Handlers :
        /\ Count(log[h], "sendWithSES") <= 1
        /\ (hs[h].sendReply # NullV /\ hs[h].sendReply.k = "throw") =>
              /\ pc[h] = "done"
              /\ NotMailed(resp[h])
              /\ Count(log[h], "sendWithSES") = 1

\* C16 witness: a send failed with an error that names no recipient rejection and
\* the event was acknowledged.
C16_Witness ==
    \E h \in Handlers :
        /\ hs[h].sendReply # NullV
        /\ hs[h].sendReply.k = "throw"
        /\ ~RecipientRejection(hs[h].sendReply)
        /\ pc[h] = "done"

-----------------------------------------------------------------------------
(* src/renderEmail.js: notification kinds, template paths, built-in content   *)

\* the character U+2014 of the built-in subject of payment-paid
EmDash == "U+2014"

\* the byte order mark U+FEFF that the loaders strip
BOM == "U+FEFF"

Digits == <<"0", "1", "2", "3", "4", "5", "6", "7", "8", "9">>

\* the decimal digits of a natural number
RECURSIVE NumStr(_)
NumStr(n) == IF n < 10 THEN <<Digits[n + 1]>> ELSE NumStr(n \div 10) \o <<Digits[(n % 10) + 1]>>

\* the characters of a word
Chars(w) == [i \in 1..Len(w) |-> SubSeq(w, i, i)]

\* the constructor Object, and Object.prototype with its twelve own properties:
\* the constructor, the methods, and the accessor __proto__, which reads null
\* on the prototype itself
ObjectConstructor == Fn(Chars("Object"))
ObjectPrototype ==
    [t |-> "object",
     f |-> [k \in ObjectPrototypeKeys |->
              IF k = Chars("constructor") THEN ObjectConstructor
              ELSE IF k = Chars("__proto__") THEN NullV
              ELSE Fn(k)]]

\* the own methods of the constructor Object
ObjectStatics ==
    { Chars("assign"), Chars("create"), Chars("defineProperties"), Chars("defineProperty"),
      Chars("entries"), Chars("freeze"), Chars("fromEntries"),
      Chars("getOwnPropertyDescriptor"), Chars("getOwnPropertyDescriptors"),
      Chars("getOwnPropertyNames"), Chars("getOwnPropertySymbols"), Chars("getPrototypeOf"),
      Chars("hasOwn"), Chars("is"), Chars("isExtensible"), Chars("isFrozen"),
      Chars("isSealed"), Chars("keys"), Chars("preventExtensions"), Chars("seal"),
      Chars("setPrototypeOf"), Chars("values") }

\* the own property length of a built-in function: the number of parameters it
\* declares
FnLength(name) ==
    IF name \in { Chars("defineProperty") } THEN 3
    ELSE IF name \in { Chars("assign"), Chars("create"), Chars("defineProperties"),
                       Chars("getOwnPropertyDescriptor"), Chars("hasOwn"), Chars("is"),
                       Chars("setPrototypeOf"), Chars("__defineGetter__"),
                       Chars("__defineSetter__") } THEN 2
    ELSE IF name \in { Chars("toString"), Chars("toLocaleString"), Chars("valueOf") } THEN 0
    ELSE 1

\* an object whose own property toString is not a function has no string form:
\* the conversion finds neither a callable toString nor a valueOf that returns
\* a primitive, and throws a TypeError
Unprintable(v) ==
    /\ v.t = "object"
    /\ Chars("toString") \in DOMAIN v.f
    /\ v.f[Chars("toString")].t # "function"

\* String(v) as a template literal applies it
ToStr(v) ==
    IF Unprintable(v) THEN Throws("TypeError")
    ELSE IF v.t = "string" THEN v.s
    ELSE IF v.t = "null" THEN <<"n", "u", "l", "l">>
    ELSE IF v.t = "undefined" THEN <<"u", "n", "d", "e", "f", "i", "n", "e", "d">>
    ELSE IF v.t = "number" THEN (IF v.n < 0 THEN <<"-">> \o NumStr(0 - v.n) ELSE NumStr(v.n))
    ELSE IF v.t = "function"
    THEN Cat(<<<<"f", "u", "n", "c", "t", "i", "o", "n", " ">>, v.name,
               <<"(", ")", " ", "{", " ", "[", "n", "a", "t", "i", "v", "e", " ", "c", "o", "d", "e", "]", " ", "}">>>>)
    ELSE <<"[", "o", "b", "j", "e", "c", "t", " ", "O", "b", "j", "e", "c", "t", "]">>

S_payment_paid == <<"p", "a", "y", "m", "e", "n", "t", "-", "p", "a", "i", "d">>
S_subscription_renewed == <<"s", "u", "b", "s", "c", "r", "i", "p", "t", "i", "o", "n", "-", "r", "e", "n", "e", "w", "e", "d">>
S_payment_paid_sub_renew == <<"p", "a", "y", "m", "e", "n", "t", "-", "p", "a", "i", "d", "-", "s", "u", "b", "-", "r", "e", "n", "e", "w">>
S_payment_failed == <<"p", "a", "y", "m", "e", "n", "t", "-", "f", "a", "i", "l", "e", "d">>
S_refund_issued == <<"r", "e", "f", "u", "n", "d", "-", "i", "s", "s", "u", "e", "d">>
S_hosting == <<"h", "o", "s", "t", "i", "n", "g">>
S_comp_aud == <<"c", "o", "m", "p", "-", "a", "u", "d">>

\* const LEGACY_TO_NEW = {...}; LEGACY_TO_NEW[id]: an own entry, or what the
\* literal inherits from Object.prototype (the constructor Object, the prototype
\* itself, a method)
LEGACY_TO_NEW(id) ==
    IF id = Str(S_invoice_paid) THEN Str(S_payment_paid)
    ELSE IF id = Str(S_subscription_renewed) THEN Str(S_payment_paid_sub_renew)
    ELSE IF id = Str(S_payment_failed) THEN Str(S_payment_failed)
    ELSE IF id = Str(S_refund_issued) THEN Str(S_refund_issued)
    ELSE IF id = Str(Chars("__proto__")) THEN ObjectPrototype
    ELSE IF id.t = "string" /\ id.s \in ObjectPrototypeKeys THEN ObjectPrototype.f[id.s]
    ELSE Undef

\* a renderer that uses the kind as it was given
normalizeNotificationId_AsGiven(id) == id

\* const normalizeNotificationId = (id) => LEGACY_TO_NEW[id] || id
normalizeNotificationId(id) == JsOr(LEGACY_TO_NEW(id), id)

\* const TEMPLATES_BUCKET = process.env.TEMPLATES_BUCKET
TEMPLATES_BUCKET == Env("TEMPLATES_BUCKET")

\* loadTemplate's paths with the service paths tried first
TemplatePaths_ServiceFirst(brand, notificationId, serviceId, locale) ==
    LET b == ToStr(TEMPLATES_BUCKET) IN
    << Cat(<<b, <<"/">>, ToStr(brand), <<"/", "s", "e", "r", "v", "i", "c", "e", "s", "/">>, ToStr(serviceId), <<"/">>, ToStr(locale), <<".", "h", "t", "m", "l">>>>),
       Cat(<<b, <<"/">>, ToStr(brand), <<"/", "s", "e", "r", "v", "i", "c", "e", "s", "/">>, ToStr(serviceId), <<"/", "e", "n", ".", "h", "t", "m", "l">>>>),
       Cat(<<b, <<"/">>, ToStr(brand), <<"/">>, ToStr(notificationId), <<"/">>, ToStr(locale), <<".", "h", "t", "m", "l">>>>),
       Cat(<<b, <<"/">>, ToStr(brand), <<"/">>, ToStr(notificationId), <<"/", "e", "n", ".", "h", "t", "m", "l">>>>) >>

\* loadTemplate: const tryPaths = [...]
TemplatePaths(brand, notificationId, serviceId, locale) ==
    LET b == ToStr(TEMPLATES_BUCKET) IN
    << Cat(<<b, <<"/">>, ToStr(brand), <<"/">>, ToStr(notificationId), <<"/">>, ToStr(locale), <<".", "h", "t", "m", "l">>>>),
       Cat(<<b, <<"/">>, ToStr(brand), <<"/">>, ToStr(notificationId), <<"/", "e", "n", ".", "h", "t", "m", "l">>>>),
       Cat(<<b, <<"/">>, ToStr(brand), <<"/", "s", "e", "r", "v", "i", "c", "e", "s", "/">>, ToStr(serviceId), <<"/">>, ToStr(locale), <<".", "h", "t", "m", "l">>>>),
       Cat(<<b, <<"/">>, ToStr(brand), <<"/", "s", "e", "r", "v", "i", "c", "e", "s", "/">>, ToStr(serviceId), <<"/", "e", "n", ".", "h", "t", "m", "l">>>>) >>

\* loadSubject: const tryPaths = [...]
SubjectPaths(brand, notificationId, locale) ==
    LET b == ToStr(TEMPLATES_BUCKET) IN
    << Cat(<<b, <<"/">>, ToStr(brand), <<"/">>, ToStr(notificationId), <<"/">>, ToStr(locale), <<".", "s", "u", "b", "j", "e", "c", "t", ".", "t", "x", "t">>>>),
       Cat(<<b, <<"/">>, ToStr(brand), <<"/">>, ToStr(notificationId), <<"/", "e", "n", ".", "s", "u", "b", "j", "e", "c", "t", ".", "t", "x", "t">>>>) >>

\* loadTemplate: the built-in document returned when every path missed
FallbackDocument(notificationId, locale) ==
    Cat(<<<<"<", "!", "d", "o", "c", "t", "y", "p", "e", " ", "h", "t", "m", "l", ">", "<", "h", "t", "m", "l", ">", "<", "b", "o", "d", "y", ">", "<", "p", ">", "F", "a", "l", "l", "b", "a", "c", "k", ":", " ">>, ToStr(notificationId), <<" ", "(">>,
          ToStr(locale), <<")", "<", "/", "p", ">", "<", "/", "b", "o", "d", "y", ">", "<", "/", "h", "t", "m", "l", ">">>>>)

\* obj[key] of a data bag: an own property, or undefined
Prop(obj, key) ==
    IF obj.t = "object" /\ key \in DOMAIN obj.f THEN obj.f[key] ELSE Undef

\* a subject switch that knows only the generic text
defaultSubject_GenericOnly(notificationId, data) ==
    IF Prop(data, <<"b", "r", "a", "n", "d">>).t \in {"null", "undefined"}
    THEN Throws("TypeError")
    ELSE IF Unprintable(Prop(Prop(data, <<"b", "r", "a", "n", "d">>), <<"b", "r", "a", "n", "d", "N", "a", "m", "e">>))
    THEN Throws("TypeError")
    ELSE
    Str(Cat(<<ToStr(Prop(Prop(data, <<"b", "r", "a", "n", "d">>), <<"b", "r", "a", "n", "d", "N", "a", "m", "e">>)), <<":", " ", "U", "p", "d", "a", "t", "e">>>>))

\* function defaultSubject(notificationId, data)
defaultSubject(notificationId, data) ==
    LET bn == ToStr(Prop(Prop(data, <<"b", "r", "a", "n", "d">>), <<"b", "r", "a", "n", "d", "N", "a", "m", "e">>)) IN
    IF Prop(data, <<"b", "r", "a", "n", "d">>).t \in {"null", "undefined"}
    THEN Throws("TypeError")
    ELSE IF Unprintable(Prop(Prop(data, <<"b", "r", "a", "n", "d">>), <<"b", "r", "a", "n", "d", "N", "a", "m", "e">>))
    THEN Throws("TypeError")
    ELSE IF notificationId = Str(S_payment_paid)
            /\ Unprintable(JsOr(Prop(data, <<"i", "n", "v", "o", "i", "c", "e", "N", "o">>), Str(<<>>)))
    THEN Throws("TypeError")
    ELSE IF notificationId = Str(S_payment_paid)
    THEN Str(trim(Cat(<<bn, <<":", " ", "P", "a", "y", "m", "e", "n", "t", " ", "r", "e", "c", "e", "i", "v", "e", "d", " ">>, <<EmDash>>, <<" ", "o", "r", "d", "e", "r", " ">>,
                        ToStr(JsOr(Prop(data, <<"i", "n", "v", "o", "i", "c", "e", "N", "o">>), Str(<<>>)))>>)))
    ELSE IF notificationId = Str(S_payment_failed)
    THEN Str(Cat(<<bn, <<":", " ", "P", "a", "y", "m", "e", "n", "t", " ", "f", "a", "i", "l", "e", "d">>>>))
    ELSE IF notificationId = Str(S_payment_paid_sub_renew)
    THEN Str(Cat(<<bn, <<":", " ", "S", "u", "b", "s", "c", "r", "i", "p", "t", "i", "o", "n", " ", "r", "e", "n", "e", "w", "e", "d">>>>))
    ELSE IF notificationId = Str(S_refund_issued)
    THEN Str(Cat(<<bn, <<":", " ", "R", "e", "f", "u", "n", "d", " ", "p", "r", "o", "c", "e", "s", "s", "e", "d">>>>))
    ELSE Str(Cat(<<bn, <<":", " ", "U", "p", "d", "a", "t", "e">>>>))

-----------------------------------------------------------------------------
(* utils/templating.js (unnamed/part_004, second revision): replacePlaceholders *)

DigitSet == {Digits[i] : i \in 1..Len(Digits)}

\* \w and the dot: the characters of a marker's key
KeyChars == UpperSet \cup LowerSet \cup DigitSet \cup {"_", "."}

\* the least index of a set of indices, or none when the set is empty
FirstOf(S, none) == IF S = {} THEN none ELSE CHOOSE i \in S : \A j \in S : i <= j

\* the first index at or after i whose character is not in set (Len + 1 if none)
RunEnd(s, i, set) == FirstOf({j \in i..Len(s) : s[j] \notin set}, Len(s) + 1)

\* the first index at or after i whose character is ch (Len + 1 if none)
Find(s, i, ch) == FirstOf({j \in i..Len(s) : s[j] = ch}, Len(s) + 1)

\* s.substring(i - 1, j) with 1-based inclusive bounds
Slice(s, i, j) == IF j < i THEN <<>> ELSE SubSeq(s, i, j)

\* s.startsWith(p, i - 1)
StartsAt(s, i, p) == i + Len(p) - 1 <= Len(s) /\ SubSeq(s, i, i + Len(p) - 1) = p

\* key.split('.')
RECURSIVE Split(_, _)
Split(s, ch) ==
    LET k == Find(s, 1, ch) IN
    IF k > Len(s) THEN <<s>> ELSE <<Slice(s, 1, k - 1)>> \o Split(Slice(s, k + 1, Len(s)), ch)

\* String(v)
JsString(v) == ToStr(v)

\* the number a run of decimal digits denotes
RECURSIVE NumOf(_)
NumOf(p) ==
    IF p = <<>> THEN 0
    ELSE NumOf(SubSeq(p, 1, Len(p) - 1)) * 10 + (CHOOSE i \in 1..10 : Digits[i] = p[Len(p)]) - 1

\* the index a property name denotes on a string, -1 when it is no index: an
\* index is a canonical numeral ("0", or digits that do not start with 0); one of
\* more than nine digits is past the end of every string here
IndexOf(p) ==
    IF p # <<>> /\ (\A i \in 1..Len(p) : p[i] \in DigitSet) /\ (Len(p) = 1 \/ p[1] # "0")
    THEN (IF Len(p) <= 9 THEN NumOf(p) ELSE 1000000000)
    ELSE 0 - 1

\* cur && Object.prototype.hasOwnProperty.call(cur, p)
HasOwn(cur, p) ==
    /\ Truthy(cur)
    /\ IF cur.t = "object" THEN p \in DOMAIN cur.f
       ELSE IF cur.t = "string" THEN p = <<"l", "e", "n", "g", "t", "h">> \/ (IndexOf(p) >= 0 /\ IndexOf(p) < Len(cur.s))
       ELSE IF cur.t = "function"
       THEN \/ p \in {Chars("length"), Chars("name")}
            \/ cur = ObjectConstructor /\ (p = Chars("prototype") \/ p \in ObjectStatics)
       ELSE FALSE

\* cur[p] for an own property
OwnValue(cur, p) ==
    IF cur.t = "object" THEN cur.f[p]
    ELSE IF cur.t = "function"
    THEN (IF p = Chars("length") THEN Num(FnLength(cur.name))
          ELSE IF p = Chars("name") THEN Str(cur.name)
          ELSE IF p = Chars("prototype") THEN ObjectPrototype
          ELSE Fn(p))
    ELSE IF p = <<"l", "e", "n", "g", "t", "h">> THEN Num(Len(cur.s))
    ELSE Str(<<cur.s[IndexOf(p) + 1]>>)

\* the loop over the parts of a dotted key: the value reached, and whether every
\* part was an own property
RECURSIVE Walk(_, _)
Walk(cur, parts) ==
    IF parts = <<>> THEN [found |-> TRUE, cur |-> cur]
    ELSE IF HasOwn(cur, Head(parts)) THEN Walk(OwnValue(cur, Head(parts)), Tail(parts))
    ELSE [found |-> FALSE, cur |-> cur]

\* the match of /\{\{\s*([.\w]+)(?:\|([^}]+))?\s*\}\}/ that starts at index i
MatchAt(s, i) ==
    LET j == RunEnd(s, i + 2, WhiteSpace)
        k == RunEnd(s, j, KeyChars)
        d == Find(s, k + 1, "}")
        m == RunEnd(s, k, WhiteSpace)
        none == [ok |-> FALSE, last |-> i, key |-> <<>>, defVal |-> Undef]
    IN IF ~StartsAt(s, i, <<"{", "{">>) \/ k = j THEN none
       ELSE IF k <= Len(s) /\ s[k] = "|"
       THEN (IF d > k + 1 /\ StartsAt(s, d, <<"}", "}">>)
             THEN [ok |-> TRUE, last |-> d + 1, key |-> Slice(s, j, k - 1),
                   defVal |-> Str(Slice(s, k + 1, d - 1))]
             ELSE none)
       ELSE IF StartsAt(s, m, <<"}", "}">>)
       THEN [ok |-> TRUE, last |-> m + 1, key |-> Slice(s, j, k - 1), defVal |-> Undef]
       ELSE none

\* the replacer callback (_, key, defVal) => ...
Replacement(key, defVal, data) ==
    LET w == Walk(data, Split(key, ".")) IN
    IF w.found /\ w.cur.t \notin {"null", "undefined"} THEN JsString(w.cur)
    ELSE IF defVal.t = "string" THEN trim(defVal.s)
    ELSE Cat(<<<<"{", "{">>, key, <<"}", "}">>>>)

\* the scan of a global replace: the text up to the next match, the replacement,
\* then the rest after the match (a replacement is never scanned again)
RECURSIVE ReplaceFrom(_, _, _)
ReplaceFrom(s, i, data) ==
    LET k == FirstOf({j \in i..Len(s) : MatchAt(s, j).ok}, Len(s) + 1) IN
    IF k > Len(s) THEN Slice(s, i, Len(s))
    ELSE Slice(s, i, k - 1) \o Replacement(MatchAt(s, k).key, MatchAt(s, k).defVal, data)
            \o ReplaceFrom(s, MatchAt(s, k).last + 1, data)

\* the scan from index i meets a marker whose value has no string form:
\* String(cur) throws inside the replacer and the replace throws with it
RECURSIVE ReplaceThrows(_, _, _)
ReplaceThrows(s, i, data) ==
    LET k == FirstOf({j \in i..Len(s) : MatchAt(s, j).ok}, Len(s) + 1)
        w == Walk(data, Split(MatchAt(s, k).key, "."))
    IN /\ k <= Len(s)
       /\ \/ w.found /\ Unprintable(w.cur)
          \/ ReplaceThrows(s, MatchAt(s, k).last + 1, data)

\* a replace that also trims its result
replacePlaceholders_Trimmed(str, data) ==
    IF ReplaceThrows(str, 1, data) THEN Throws("TypeError")
    ELSE trim(ReplaceFrom(str, 1, data))

\* a replace that scans its own output once more
replacePlaceholders_Rescanned(str, data) ==
    IF ReplaceThrows(str, 1, data) THEN Throws("TypeError")
    ELSE ReplaceFrom(ReplaceFrom(str, 1, data), 1, data)

\* export function replacePlaceholders(str, data): the text with its markers
\* replaced, or what String threw
replacePlaceholders(str, data) ==
    IF ReplaceThrows(str, 1, data) THEN Throws("TypeError")
    ELSE ReplaceFrom(str, 1, data)

-----------------------------------------------------------------------------
(* src/renderEmail.js: the style sheet and the text alternative *)

\* the first index at or after i where p starts, letter case ignored (Len + 1 if none)
FindNoCase(s, i, p) ==
    LET low == FoldAscii(s) IN
    FirstOf({j \in i..Len(s) : StartsAt(low, j, p)}, Len(s) + 1)

\* the replacement text of String.prototype.replace from index i on: $$ is a
\* dollar sign, $& the match, $` the text before it, $' the text after it; with a
\* string pattern there are no groups, and every other $ stands for itself
RECURSIVE Substitution(_, _, _, _, _)
Substitution(x, i, before, match, after) ==
    LET k == Find(x, i, "$")
        c == IF k < Len(x) THEN x[k + 1] ELSE ""
    IN IF k > Len(x) THEN Slice(x, i, Len(x))
       ELSE Slice(x, i, k - 1) \o
            (IF c = "$" THEN <<"$">> \o Substitution(x, k + 2, before, match, after)
             ELSE IF c = "&" THEN match \o Substitution(x, k + 2, before, match, after)
             ELSE IF c = "U+0060" THEN before \o Substitution(x, k + 2, before, match, after)
             ELSE IF c = "'" THEN after \o Substitution(x, k + 2, before, match, after)
             ELSE <<"$">> \o Substitution(x, k + 1, before, match, after))

\* html.replace("</head>", x): the first occurrence only, x a replacement pattern
ReplaceFirst(s, p, x) ==
    LET k == CHOOSE i \in 1..(Len(s) + 1) :
                 /\ (i = Len(s) + 1 \/ StartsAt(s, i, p))
                 /\ \A j \in 1..(i - 1) : ~StartsAt(s, j, p)
    IN IF k > Len(s) THEN s
       ELSE Slice(s, 1, k - 1)
            \o Substitution(x, 1, Slice(s, 1, k - 1), p, Slice(s, k + Len(p), Len(s)))
            \o Slice(s, k + Len(p), Len(s))

\* juice(injected): juice is a library outside the repository; what it does to
\* the markup (style attributes written into the elements, style blocks rewritten
\* or removed) is not modelled, and the injected document goes on as it is
juice(html) == html

\* inlineCss after the fetch answered ok with the sheet css
InjectCss(html, css) ==
    juice(IF Contains(html, <<"<", "/", "h", "e", "a", "d", ">">>)
          THEN ReplaceFirst(html, <<"<", "/", "h", "e", "a", "d", ">">>, Cat(<<<<"<", "s", "t", "y", "l", "e", ">">>, css, <<"<", "/", "s", "t", "y", "l", "e", ">", "<", "/", "h", "e", "a", "d", ">">>>>))
          ELSE Cat(<<<<"<", "s", "t", "y", "l", "e", ">">>, css, <<"<", "/", "s", "t", "y", "l", "e", ">">>, html>>))

\* .replace(/<style[\s\S]*?<\/style>/gi, "")
RECURSIVE StripStyle(_, _)
StripStyle(s, i) ==
    LET low == FoldAscii(s)
        k == FirstOf({j \in i..Len(s) : StartsAt(low, j, <<"<", "s", "t", "y", "l", "e">>)
                                           /\ FindNoCase(s, j + 6, <<"<", "/", "s", "t", "y", "l", "e", ">">>) <= Len(s)},
                     Len(s) + 1)
    IN IF k > Len(s) THEN Slice(s, i, Len(s))
       ELSE Slice(s, i, k - 1) \o StripStyle(s, FindNoCase(s, k + 6, <<"<", "/", "s", "t", "y", "l", "e", ">">>) + 8)

\* .replace(/<[^>]+>/g, " ")
RECURSIVE StripTags(_, _)
StripTags(s, i) ==
    LET k == FirstOf({j \in i..Len(s) : s[j] = "<" /\ Find(s, j + 1, ">") > j + 1
                                           /\ Find(s, j + 1, ">") <= Len(s)},
                     Len(s) + 1)
    IN IF k > Len(s) THEN Slice(s, i, Len(s))
       ELSE Slice(s, i, k - 1) \o <<" ">> \o StripTags(s, Find(s, k + 1, ">") + 1)

\* .replace(/\s+/g, " ")
RECURSIVE SquashSpace(_, _)
SquashSpace(s, i) ==
    LET k == FirstOf({j \in i..Len(s) : s[j] \in WhiteSpace}, Len(s) + 1) IN
    IF k > Len(s) THEN Slice(s, i, Len(s))
    ELSE Slice(s, i, k - 1) \o <<" ">> \o SquashSpace(s, RunEnd(s, k, WhiteSpace))

\* a text alternative that keeps the style blocks
TextOf_KeepStyle(html) == trim(SquashSpace(StripTags(html, 1), 1))

\* renderEmail: const text = html.replace(...).replace(...).replace(...).trim()
TextOf(html) == trim(SquashSpace(StripTags(StripStyle(html, 1), 1), 1))

\* txt.replace(/^\uFEFF/, "")
StripBOM(s) == IF s # <<>> /\ s[1] = BOM THEN Tail(s) ELSE s

-----------------------------------------------------------------------------
(* src/renderEmail.js: renderEmail, one action per resumption after an await *)

S_tplbucket == <<"g", "s", ":", "/", "/", "t", "p", "l">>
S_Yokweb == <<"Y", "o", "k", "w", "e", "b">>
S_cssUrl == <<"h", "t", "t", "p", "s", ":", "/", "/", "c", "d", "n", "/", "x", ".", "c", "s", "s">>
S_INV1 == <<"I", "N", "V", "-", "1">>
S_Jane == <<"J", "a", "n", "e">>

\* process.env as renderEmail.js reads it
RenderEnvOf(assets, templates) ==
    EnvOf(Undef, Undef, assets, Str(S_secret)) @@ [TEMPLATES_BUCKET |-> templates]

RenderEnvs ==
    { RenderEnvOf(Str(S_bucket), Str(S_tplbucket)),
      RenderEnvOf(Str(S_bucket), Undef),
      RenderEnvOf(Undef, Str(S_tplbucket)) }

\* what JSON.parse may return for a brand file: an object with or without a style
\* sheet, an object whose display name is itself an object with a property
\* toString, or null (the file holds the text null)
BrandSamples ==
    { Meta((<<"b", "r", "a", "n", "d", "N", "a", "m", "e">> :> Str(S_Yokweb))
           @@ (<<"a", "s", "s", "e", "t", "s">> :> Meta(<<"c", "s", "s", "U", "r", "l">> :> Str(S_cssUrl)))),
      Meta(<<"b", "r", "a", "n", "d", "N", "a", "m", "e">> :> Str(S_Yokweb)),
      Meta(<<"b", "r", "a", "n", "d", "N", "a", "m", "e">> :> Meta(Chars("toString") :> Str(<<"x">>))),
      NullV }

\* how the read of the brand file may settle: parsed, or rejected (the read fails,
\* the text is not JSON)
BrandReplies == {[k |-> "ok", brand |-> b] : b \in BrandSamples} \cup {[k |-> "throw"]}

\* the texts the template store may hold for an HTML path
HtmlBodies ==
    { <<"<", "p", ">", "{", "{", "n", "o", "t", "i", "f", "i", "c", "a", "t", "i", "o", "n", "I", "d", "}", "}", " ", "f", "o", "r", " ", "{", "{", "c", "u", "s", "t", "o", "m", "e", "r", "N", "a", "m", "e", "}", "}", "<", "/", "p", ">">>,
      <<"<", "h", "t", "m", "l", ">", "<", "h", "e", "a", "d", ">", "<", "/", "h", "e", "a", "d", ">", "<", "b", "o", "d", "y", ">", "{", "{", "b", "r", "a", "n", "d", ".", "b", "r", "a", "n", "d", "N", "a", "m", "e", "}", "}", " ", "{", "{", "i", "n", "v", "o", "i", "c", "e", "N", "o", "|", "n", "/", "a", "}", "}", "<", "/", "b", "o", "d", "y", ">", "<", "/", "h", "t", "m", "l", ">">> }

\* the texts the template store may hold for a subject path
SubjectBodies ==
    { <<BOM>> \o <<"P", "a", "i", "d", " ", "{", "{", "i", "n", "v", "o", "i", "c", "e", "N", "o", "}", "}">>,
      <<"P", "a", "i", "d", " ", "{", "{", "i", "n", "v", "o", "i", "c", "e", "N", "o", "}", "}", "\n">>,
      <<>> }

\* how readGcsText may settle: the text, or rejected because the object is not
\* there or because the transport failed
StoreReplies(bodies) ==
    {[k |-> "hit", text |-> b] : b \in bodies}
        \cup {[k |-> "throw", why |-> w] : w \in {"notfound", "transport"}}

\* how await fetch(cssUrl) may settle: a response that is ok, a response that
\* is not, or a rejection
CssReplies == {[k |-> "ok"], [k |-> "notok"], [k |-> "throw"]}

\* how await res.text() may settle: the style sheet, or a rejection while the
\* body is read
CssTextReplies ==
    { [k |-> "text", css |-> <<"p", "{", "c", "o", "l", "o", "r", ":", "r", "e", "d", "}">>],
      [k |-> "text", css |-> <<"b", ":", "a", "f", "t", "e", "r", "{", "c", "o", "n", "t", "e", "n", "t", ":", "'", "$", "'", "}">>],
      [k |-> "throw"] }

\* the kinds renderEmail may be called with
KindSamples ==
    { Str(S_invoice_paid), Str(S_payment_paid), Str(S_subscription_renewed),
      Str(S_payment_failed), Str(S_refund_issued), Str(S_hosting),
      Str(<<"c", "o", "n", "s", "t", "r", "u", "c", "t", "o", "r">>) }

\* renderEmail's locals before the call
RenderFresh ==
    [rpc |-> "called", brand |-> NullV, normalized |-> NullV,
     tplFetched |-> <<>>, tplHit |-> 0, htmlTpl |-> NullV,
     subjFetched |-> <<>>, subjHit |-> 0, subjectTpl |-> NullV,
     failures |-> {}, css |-> "none", result |-> NullV]

\* a call of renderEmail
RenderCall(l, n, s, i) ==
    [fn |-> "renderEmail", brandKey |-> Str(S_yokweb), locale |-> l,
     notificationId |-> n, serviceId |-> s,
     systemData |-> Meta((<<"i", "n", "v", "o", "i", "c", "e", "N", "o">> :> i) @@ (<<"c", "u", "s", "t", "o", "m", "e", "r", "N", "a", "m", "e">> :> Str(S_Jane)))]

\* the calls explored: every kind in both locales as the handler calls it (no
\* service id), and the paid kinds with a service id or without an invoice number
RenderCalls ==
    {RenderCall(l, n, NullV, Str(S_INV1)) : l \in {Str(S_en), Str(S_pl)}, n \in KindSamples}
        \cup {RenderCall(Str(S_pl), n, Str(S_comp_aud), i) :
                 n \in {Str(S_invoice_paid), Str(S_hosting)}, i \in {Str(S_INV1), Undef}}

InitRender ==
    /\ Quiet
    /\ env \in RenderEnvs
    /\ arg \in RenderCalls
    /\ ret = RenderFresh

RenderRest == UNCHANGED arg /\ QuietUnchanged

\* const data = { ...systemData, brand, locale, notificationId: normalized, serviceId }
DataOf(r) ==
    Meta(((<<"b", "r", "a", "n", "d">> :> r.brand) @@ (<<"l", "o", "c", "a", "l", "e">> :> arg.locale)
          @@ (<<"n", "o", "t", "i", "f", "i", "c", "a", "t", "i", "o", "n", "I", "d">> :> r.normalized) @@ (<<"s", "e", "r", "v", "i", "c", "e", "I", "d">> :> arg.serviceId))
         @@ arg.systemData.f)

\* renderEmail.js:104-117: placeholders, subject and text from the fetched parts
Rendered(r, withCss) ==
    LET data == DataOf(r)
        html == replacePlaceholders(withCss, data)
    IN [html |-> html,
        text |-> TextOf(html),
        subject |-> IF Truthy(r.subjectTpl)
                    THEN Str(replacePlaceholders(r.subjectTpl.s, data))
                    ELSE defaultSubject(r.normalized, data)]

\* renderEmail.js:104-117: renderEmail returns its result, or rejects with what
\* replacePlaceholders or defaultSubject threw
Returned(r, withCss) ==
    LET out == Rendered(r, withCss) IN
    IF ReplaceThrows(withCss, 1, DataOf(r)) THEN [r EXCEPT !.rpc = "rejected"]
    ELSE IF Truthy(r.subjectTpl) /\ ReplaceThrows(r.subjectTpl.s, 1, DataOf(r))
    THEN [r EXCEPT !.rpc = "rejected"]
    ELSE IF out.subject = Throws("TypeError") THEN [r EXCEPT !.rpc = "rejected"]
    ELSE [r EXCEPT !.rpc = "done", !.result = out]

\* renderEmail.js:101-103: the subject lookup is over; inlineCss returns the HTML
\* as it is when the brand names no style sheet, and fetches it otherwise
AfterSubject(r) ==
    IF ~Truthy(Prop(Prop(r.brand, <<"a", "s", "s", "e", "t", "s">>), <<"c", "s", "s", "U", "r", "l">>))
    THEN Returned(r, r.htmlTpl.s)
    ELSE [r EXCEPT !.rpc = "css"]

\* renderEmail.js:95-99: the template lookup is over; loadSubject reads its first path
AfterTemplate(r) ==
    [r EXCEPT !.rpc = "subject",
              !.subjFetched = <<SubjectPaths(arg.brandKey, r.normalized, arg.locale)[1]>>]

\* renderEmail.js:84-85, 18-30: the call; loadBrand throws without a bucket or a
\* brand key, and reads the brand file otherwise
CallRenderEmail ==
    /\ arg.fn = "renderEmail"
    /\ ret.rpc = "called"
    /\ ret' = IF ~Truthy(JsOr(Env("ASSETS_BUCKET"), Str(<<>>))) \/ ~Truthy(arg.brandKey)
              THEN [ret EXCEPT !.rpc = "rejected"]
              ELSE [ret EXCEPT !.rpc = "brand"]
    /\ RenderRest

\* renderEmail.js:30-46, 85-93: the brand file settled; the kind is normalized and
\* loadTemplate reads its first path
LoadBrandReply(r) ==
    /\ arg.fn = "renderEmail"
    /\ ret.rpc = "brand"
    /\ r \in BrandReplies
    /\ ret' = IF r.k = "throw"
              THEN [ret EXCEPT !.rpc = "rejected"]
              ELSE LET normalized == normalizeNotificationId(arg.notificationId) IN
                   [ret EXCEPT !.rpc = "template", !.brand = r.brand,
                               !.normalized = normalized,
                               !.tplFetched = <<TemplatePaths(arg.brandKey, normalized,
                                                              arg.serviceId, arg.locale)[1]>>]
    /\ RenderRest

\* renderEmail.js:44-51: a read of loadTemplate settled
LoadTemplateReply(r) ==
    /\ arg.fn = "renderEmail"
    /\ ret.rpc = "template"
    /\ r \in StoreReplies(HtmlBodies)
    /\ LET n == Len(ret.tplFetched)
           paths == TemplatePaths(arg.brandKey, ret.normalized, arg.serviceId, arg.locale)
       IN ret' = IF r.k = "hit"
                 THEN AfterTemplate([ret EXCEPT !.tplHit = n, !.htmlTpl = Str(r.text)])
                 ELSE IF n < Len(paths)
                 THEN [ret EXCEPT !.tplFetched = @ \o <<paths[n + 1]>>,
                                  !.failures = @ \cup {r.why}]
                 ELSE AfterTemplate([ret EXCEPT
                        !.htmlTpl = Str(FallbackDocument(ret.normalized, arg.locale)),
                        !.failures = @ \cup {r.why}])
    /\ RenderRest

\* renderEmail.js:59-65, 101-117: a read of loadSubject settled
LoadSubjectReply(r) ==
    /\ arg.fn = "renderEmail"
    /\ ret.rpc = "subject"
    /\ r \in StoreReplies(SubjectBodies)
    /\ LET n == Len(ret.subjFetched)
           paths == SubjectPaths(arg.brandKey, ret.normalized, arg.locale)
       IN ret' = IF r.k = "hit"
                 THEN AfterSubject([ret EXCEPT !.subjHit = n,
                                               !.subjectTpl = Str(StripBOM(r.text))])
                 ELSE IF n < Len(paths)
                 THEN [ret EXCEPT !.subjFetched = @ \o <<paths[n + 1]>>,
                                  !.failures = @ \cup {r.why}]
                 ELSE AfterSubject([ret EXCEPT !.failures = @ \cup {r.why}])
    /\ RenderRest

\* renderEmail.js:73-74, 104-117: await fetch(cssUrl) settled: a rejection
\* leaves renderEmail, a response that is not ok gives the HTML as it is, and the
\* body of an ok response is read
InlineCssReply(r) ==
    /\ arg.fn = "renderEmail"
    /\ ret.rpc = "css"
    /\ r \in CssReplies
    /\ ret' = IF r.k = "throw"
              THEN [ret EXCEPT !.rpc = "rejected", !.css = "throw"]
              ELSE IF r.k = "notok"
              THEN [Returned(ret, ret.htmlTpl.s) EXCEPT !.css = "notok"]
              ELSE [ret EXCEPT !.rpc = "cssText"]
    /\ RenderRest

\* renderEmail.js:75-81, 104-117: await res.text() settled: a rejection leaves
\* renderEmail, and the style sheet is put into the HTML
ResTextReply(r) ==
    /\ arg.fn = "renderEmail"
    /\ ret.rpc = "cssText"
    /\ r \in CssTextReplies
    /\ ret' = IF r.k = "throw"
              THEN [ret EXCEPT !.rpc = "rejected", !.css = "throw"]
              ELSE [Returned(ret, InjectCss(ret.htmlTpl.s, r.css)) EXCEPT !.css = "ok"]
    /\ RenderRest

NextRender ==
    \/ CallRenderEmail
    \/ \E r \in BrandReplies : LoadBrandReply(r)
    \/ \E r \in StoreReplies(HtmlBodies) : LoadTemplateReply(r)
    \/ \E r \in StoreReplies(SubjectBodies) : LoadSubjectReply(r)
    \/ \E r \in CssReplies : InlineCssReply(r)
    \/ \E r \in CssTextReplies : ResTextReply(r)

SpecRender == InitRender /\ [][NextRender]_vars

-----------------------------------------------------------------------------
(* Rendering claims *)

RenderCalled == arg # NullV /\ arg.fn = "renderEmail"

\* the HTML lookup missed at all four paths and the subject lookup at both
AllMissed ==
    /\ RenderCalled
    /\ Len(ret.tplFetched) = 4 /\ ret.tplHit = 0
    /\ Len(ret.subjFetched) = 2 /\ ret.subjHit = 0
    /\ ret.rpc \in {"css", "cssText", "done", "rejected"}

\* the kind a notification id stands for: the legacy ids are renamed
KindValue(id) ==
    IF id = Str(S_invoice_paid) THEN Str(S_payment_paid)
    ELSE IF id = Str(S_subscription_renewed) THEN Str(S_payment_paid_sub_renew)
    ELSE IF id.s \in ObjectPrototypeKeys THEN LEGACY_TO_NEW(id)
    ELSE id

\* the kind as the text that paths and placeholders carry
KindOf(id) == ToStr(KindValue(id))

\* the built-in placeholder document for a kind and a locale
PlaceholderDocument(kind, locale) ==
    Cat(<<<<"<", "!", "d", "o", "c", "t", "y", "p", "e", " ", "h", "t", "m", "l", ">", "<", "h", "t", "m", "l", ">", "<", "b", "o", "d", "y", ">", "<", "p", ">", "F", "a", "l", "l", "b", "a", "c", "k", ":", " ">>, kind, <<" ", "(">>, locale,
          <<")", "<", "/", "p", ">", "<", "/", "b", "o", "d", "y", ">", "<", "/", "h", "t", "m", "l", ">">>>>)

\* C17: when the HTML lookup misses at every tier and the subject lookup at both,
\* rendering does not throw and returns the built-in placeholder document as
\* non-empty HTML and a non-empty subject.
C17_MissesYieldFallbackContent ==
    AllMissed =>
        /\ ret.rpc # "rejected"
        /\ ret.rpc = "done" =>
              /\ ret.htmlTpl = Str(PlaceholderDocument(KindOf(arg.notificationId), arg.locale.s))
              /\ ret.result.html # <<>>
              /\ Contains(ret.result.html, <<"F", "a", "l", "l", "b", "a", "c", "k", ":", " ">>)
              /\ IsStr(ret.result.subject)
              /\ ret.result.subject.s # <<>>

\* the brand file holds an object whose display name has a string form
BrandNameShown ==
    /\ ret.brand.t = "object"
    /\ ~Unprintable(Prop(ret.brand, <<"b", "r", "a", "n", "d", "N", "a", "m", "e">>))

\* the fallback content is returned whenever the style sheet fetch does not reject
\* and the brand file holds an object whose display name has a string form
FallbackContentWhenRenderCompletes ==
    (AllMissed /\ ret.css # "throw" /\ BrandNameShown) =>
        /\ ret.rpc # "rejected"
        /\ ret.rpc = "done" =>
              /\ ret.htmlTpl = Str(PlaceholderDocument(KindOf(arg.notificationId), arg.locale.s))
              /\ ret.result.html # <<>>
              /\ Contains(ret.result.html, <<"F", "a", "l", "l", "b", "a", "c", "k", ":", " ">>)
              /\ IsStr(ret.result.subject)
              /\ ret.result.subject.s # <<>>

\* the four HTML paths in the order of the lookup: brand/kind/locale,
\* brand/kind/en, brand/services/serviceId/locale, brand/services/serviceId/en
HtmlPathOrder ==
    LET root == Cat(<<ToStr(Env("TEMPLATES_BUCKET")), <<"/">>, arg.brandKey.s, <<"/">>>>)
        kind == ToStr(ret.normalized)
        svc == Cat(<<<<"s", "e", "r", "v", "i", "c", "e", "s", "/">>, ToStr(arg.serviceId), <<"/">>>>)
    IN << Cat(<<root, kind, <<"/">>, arg.locale.s, <<".", "h", "t", "m", "l">>>>),
          Cat(<<root, kind, <<"/", "e", "n", ".", "h", "t", "m", "l">>>>),
          Cat(<<root, svc, arg.locale.s, <<".", "h", "t", "m", "l">>>>),
          Cat(<<root, svc, <<"e", "n", ".", "h", "t", "m", "l">>>>) >>

\* C18: the HTML lookup reads brand/kind/locale, brand/kind/en,
\* brand/services/serviceId/locale, brand/services/serviceId/en in that order; the
\* text of the first hit is the template and nothing is read after it; the built-in
\* document is used only when all four missed.
C18_HtmlLookupOrder ==
    (RenderCalled /\ ret.normalized # NullV) =>
        /\ Len(ret.tplFetched) \in 1..4
        /\ \A i \in 1..Len(ret.tplFetched) : ret.tplFetched[i] = HtmlPathOrder[i]
        /\ ret.tplHit > 0 =>
              /\ Len(ret.tplFetched) = ret.tplHit
              /\ IsStr(ret.htmlTpl) /\ ret.htmlTpl.s \in HtmlBodies
        /\ (ret.tplHit = 0 /\ ret.htmlTpl # NullV) =>
              /\ Len(ret.tplFetched) = 4
              /\ ret.htmlTpl = Str(PlaceholderDocument(ToStr(ret.normalized), arg.locale.s))
        /\ ret.htmlTpl = NullV => ret.rpc = "template"

\* C18 witness: the two kind paths missed, the first service path hit, and the
\* render completed with that text.
C18_Witness ==
    /\ RenderCalled
    /\ ret.rpc = "done"
    /\ ret.tplHit = 3
    /\ arg.serviceId = Str(S_comp_aud)
    /\ arg.locale = Str(S_pl)
    /\ ret.failures = {"notfound", "transport"}

LegacyIds == {S_invoice_paid, S_subscription_renewed}

\* C19: the kind is normalized before any path is built and the normalized kind is
\* the key of every HTML path, every subject path, the subject switch and the data
\* bag; no path holds a legacy id, and normalizing the normalized kind changes
\* nothing.
C19_LegacyKindNormalizedEverywhere ==
    (RenderCalled /\ ret.rpc \notin {"called", "brand", "rejected"}) =>
        LET kind == KindOf(arg.notificationId)
            seg == Cat(<<<<"/">>, kind, <<"/">>>>)
        IN /\ ret.normalized = KindValue(arg.notificationId)
           /\ normalizeNotificationId(ret.normalized) = ret.normalized
           /\ \A i \in 1..Len(ret.tplFetched) :
                 /\ \A old \in LegacyIds : ~Contains(ret.tplFetched[i], old)
                 /\ i <= 2 => Contains(ret.tplFetched[i], seg)
           /\ \A i \in 1..Len(ret.subjFetched) :
                 /\ \A old \in LegacyIds : ~Contains(ret.subjFetched[i], old)
                 /\ Contains(ret.subjFetched[i], seg)
           /\ ret.rpc = "done" =>
                 /\ DataOf(ret).f[ <<"n", "o", "t", "i", "f", "i", "c", "a", "t", "i", "o", "n", "I", "d">> ] = KindValue(arg.notificationId)
                 /\ ret.tplHit = 0 => Contains(ret.result.html, kind)
                 /\ \A old \in LegacyIds : ~Contains(ret.result.html, old)
                 /\ (~Truthy(ret.subjectTpl) /\ kind = S_payment_paid) =>
                       Contains(ret.result.subject.s, <<":", " ", "P", "a", "y", "m", "e", "n", "t", " ", "r", "e", "c", "e", "i", "v", "e", "d", " ">>)
                 /\ (~Truthy(ret.subjectTpl) /\ kind = S_payment_paid_sub_renew) =>
                       ret.result.subject.s = Cat(<<S_Yokweb, <<":", " ", "S", "u", "b", "s", "c", "r", "i", "p", "t", "i", "o", "n", " ", "r", "e", "n", "e", "w", "e", "d">>>>)

\* C19 witness: a render called with the legacy id invoice-paid completed on the
\* built-in document and the built-in subject of payment-paid.
C19_Witness ==
    /\ RenderCalled
    /\ arg.notificationId = Str(S_invoice_paid)
    /\ ret.rpc = "done"
    /\ ret.tplHit = 0
    /\ ret.subjHit = 0
    /\ ret.result.subject = Str(Cat(<<S_Yokweb, <<":", " ", "P", "a", "y", "m", "e", "n", "t", " ", "r", "e", "c", "e", "i", "v", "e", "d", " ">>, <<EmDash>>, <<" ", "o", "r", "d", "e", "r", " ">>, S_INV1>>))

\* the brand display name of the render
DisplayName == Prop(ret.brand, <<"b", "r", "a", "n", "d", "N", "a", "m", "e">>).s

\* the built-in subject of a kind
BuiltInSubject(kind, invoiceNo) ==
    IF kind = S_payment_paid
    THEN Cat(<<DisplayName, <<":", " ", "P", "a", "y", "m", "e", "n", "t", " ", "r", "e", "c", "e", "i", "v", "e", "d", " ">>, <<EmDash>>, <<" ", "o", "r", "d", "e", "r", " ">>, invoiceNo>>)
    ELSE IF kind = S_payment_failed THEN Cat(<<DisplayName, <<":", " ", "P", "a", "y", "m", "e", "n", "t", " ", "f", "a", "i", "l", "e", "d">>>>)
    ELSE IF kind = S_payment_paid_sub_renew THEN Cat(<<DisplayName, <<":", " ", "S", "u", "b", "s", "c", "r", "i", "p", "t", "i", "o", "n", " ", "r", "e", "n", "e", "w", "e", "d">>>>)
    ELSE IF kind = S_refund_issued THEN Cat(<<DisplayName, <<":", " ", "R", "e", "f", "u", "n", "d", " ", "p", "r", "o", "c", "e", "s", "s", "e", "d">>>>)
    ELSE Cat(<<DisplayName, <<":", " ", "U", "p", "d", "a", "t", "e">>>>)

\* the two subject paths: brand/kind/locale, brand/kind/en
SubjectPathOrder ==
    LET root == Cat(<<ToStr(Env("TEMPLATES_BUCKET")), <<"/">>, arg.brandKey.s, <<"/">>,
                     KindOf(arg.notificationId), <<"/">>>>)
    IN << Cat(<<root, arg.locale.s, <<".", "s", "u", "b", "j", "e", "c", "t", ".", "t", "x", "t">>>>), Cat(<<root, <<"e", "n", ".", "s", "u", "b", "j", "e", "c", "t", ".", "t", "x", "t">>>>) >>

\* C20: when no subject template is found at brand/kind/locale nor at
\* brand/kind/en, the subject is the built-in text of the normalized kind:
\* "<name>: Payment received <dash> order <invoiceNumber>" for payment-paid, the
\* texts of payment-failed, payment-paid-sub-renew and refund-issued, and
\* "<name>: Update" for every other kind.
C20_BuiltInSubjectByKind ==
    (RenderCalled /\ ret.rpc = "done" /\ ret.subjHit = 0
        /\ IsStr(Prop(arg.systemData, <<"i", "n", "v", "o", "i", "c", "e", "N", "o">>))) =>
        /\ ret.subjFetched = SubjectPathOrder
        /\ ret.result.subject =
              Str(BuiltInSubject(KindOf(arg.notificationId), Prop(arg.systemData, <<"i", "n", "v", "o", "i", "c", "e", "N", "o">>).s))

\* C20 witness: a kind outside the switch got the generic subject after both
\* subject paths missed.
C20_Witness ==
    /\ RenderCalled
    /\ ret.rpc = "done"
    /\ ret.subjHit = 0
    /\ arg.notificationId = Str(S_hosting)
    /\ arg.locale = Str(S_pl)
    /\ ret.result.subject = Str(Cat(<<S_Yokweb, <<":", " ", "U", "p", "d", "a", "t", "e">>>>))

-----------------------------------------------------------------------------
(* Rendering under absent configuration and a failing style sheet *)

\* one of the two store locations is not configured
ConfigAbsent ==
    ~Truthy(Env("ASSETS_BUCKET")) \/ ~Truthy(Env("TEMPLATES_BUCKET"))

\* the brand file is read only with an asset bucket configured; the read was
\* rejected when the call ended without a brand
BrandReadRejected ==
    ret.rpc = "rejected" /\ ret.brand = NullV /\ Truthy(Env("ASSETS_BUCKET"))

\* C21: when the template-store location or the asset-store location is not
\* configured, rendering does not raise for that reason: it ends rejected only
\* because a remote read or the style sheet fetch was rejected, and otherwise
\* runs on to a result.
C21_AbsentConfigurationIsNotFatal ==
    (RenderCalled /\ ConfigAbsent /\ ret.rpc = "rejected") =>
        (BrandReadRejected \/ ret.css = "throw")

\* without a template-store location rendering is never rejected at the call:
\* it is rejected by the brand read, by the style sheet fetch, or by a display
\* name without a string form
TemplateLocationAbsentIsNotFatal ==
    (RenderCalled /\ ~Truthy(Env("TEMPLATES_BUCKET")) /\ ret.rpc = "rejected") =>
        (BrandReadRejected \/ ret.css = "throw" \/ ~BrandNameShown)

\* C22: when the brand names a style sheet and fetching it fails, by a
\* non-success status or by a transport error, rendering completes and returns
\* the HTML with its placeholders filled and no style sheet in it.
C22_StyleSheetFailureIsTolerated ==
    (RenderCalled /\ ret.css \in {"notok", "throw"}) =>
        /\ ret.rpc = "done"
        /\ ret.result.html = replacePlaceholders(ret.htmlTpl.s, DataOf(ret))
        /\ ~Contains(ret.result.html, <<"<", "s", "t", "y", "l", "e", ">">>)

\* a non-success status of the style sheet fetch leaves the HTML as it was
NonSuccessStatusIsTolerated ==
    (RenderCalled /\ ret.css = "notok") =>
        /\ ret.rpc = "done"
        /\ ret.result.html = replacePlaceholders(ret.htmlTpl.s, DataOf(ret))
        /\ ~Contains(ret.result.html, <<"<", "s", "t", "y", "l", "e", ">">>)

-----------------------------------------------------------------------------
(* replacePlaceholders as a function of its inputs *)

\* a data bag with a nested mapping, a null, a zero, a value that is itself
\* marker text, a function (the kind that renderEmail normalizes 'constructor'
\* to) and an object whose property toString is a text
PlaceholderBag ==
    Meta((<<"c", "u", "s", "t", "o", "m", "e", "r", "N", "a", "m", "e">> :> Str(S_Jane))
         @@ (<<"b", "r", "a", "n", "d">> :> Meta(<<"b", "r", "a", "n", "d", "N", "a", "m", "e">> :> Str(S_Yokweb)))
         @@ (<<"n", "o", "t", "h", "i", "n", "g">> :> NullV)
         @@ (<<"a">> :> Str(<<"{", "{", "b", "}", "}">>))
         @@ (<<"b">> :> Str(<<"X">>))
         @@ (<<"c", "o", "u", "n", "t">> :> Num(0))
         @@ (<<"t", "o", "t", "a", "l">> :> Num(250))
         @@ (Chars("notificationId") :> ObjectConstructor)
         @@ (Chars("extra") :> Meta(Chars("toString") :> Str(<<"x">>))))

\* the data bags: the bag above, an empty bag, and no bag at all
BagSamples == {PlaceholderBag, Meta(EmptyMap), Undef}

\* the dotted keys a marker may name
KeySamples ==
    { <<"t", "o", "t", "a", "l">>, <<"c", "u", "s", "t", "o", "m", "e", "r", "N", "a", "m", "e">>, <<"b", "r", "a", "n", "d", ".", "b", "r", "a", "n", "d", "N", "a", "m", "e">>, <<"c", "o", "u", "n", "t">>, <<"a">>, <<"b">>,
      <<"m", "i", "s", "s", "i", "n", "g">>, <<"b", "r", "a", "n", "d", ".", "n", "o", "n", "e">>, <<"n", "o", "t", "h", "i", "n", "g">>, <<"c", "u", "s", "t", "o", "m", "e", "r", "N", "a", "m", "e", ".", "f", "i", "r", "s", "t">>,
      <<"c", "u", "s", "t", "o", "m", "e", "r", "N", "a", "m", "e", ".", "l", "e", "n", "g", "t", "h">>,
      Chars("notificationId.name"), Chars("extra") }

\* how a marker may state its default: not at all, or after a pipe with or
\* without whitespace before the pipe and around the text
NoDefault == [given |-> FALSE, pre |-> <<>>, text |-> <<>>]
DefaultForms ==
    { NoDefault,
      [given |-> TRUE, pre |-> <<>>, text |-> <<"G", "u", "e", "s", "t">>],
      [given |-> TRUE, pre |-> <<>>, text |-> <<" ", "G", "u", "e", "s", "t", " ">>],
      [given |-> TRUE, pre |-> <<" ">>, text |-> <<" ", "G", "u", "e", "s", "t", " ">>] }

\* the text of a marker: {{ key }} or {{ key | default }}, with pad as the
\* optional whitespace around the key
MarkerText(key, pad, def) ==
    IF def.given
    THEN Cat(<<<<"{", "{">>, pad, key, def.pre, <<"|">>, def.text, <<"}", "}">>>>)
    ELSE Cat(<<<<"{", "{">>, pad, key, pad, <<"}", "}">>>>)

\* the text after the marker may hold a second marker
PostSamples == {<<>>, <<"!">>, <<" ", "{", "{", "b", "}", "}">>}

\* texts without any marker
PlainSamples ==
    { <<>>, <<"H", "e", "l", "l", "o", " ", "J", "a", "n", "e">>, <<" ", "a", " ", "{", " ", "b", " ", "}", " ">>, <<"}", "}", " ", "{">>, <<"x", " ", "|", " ", "y">>, <<"{", " ", "{", "a", "}", " ", "}">>,
      <<"{", "{", "}", "}">>, <<"{", "{", " ", "}", "}", " ", "1", "0", "0", "%">>, <<"{", "{", "a">> }

\* a call of replacePlaceholders on a text with one marker between pre and post
MarkerCall(pre, key, pad, def, post, data) ==
    [fn |-> "replacePlaceholders", form |-> "marker",
     str |-> Cat(<<pre, MarkerText(key, pad, def), post>>), data |-> data,
     pre |-> pre, key |-> key, pad |-> pad, def |-> def, post |-> post]

\* a call of replacePlaceholders on a text without a marker
PlainCall(str, data) ==
    [fn |-> "replacePlaceholders", form |-> "plain", str |-> str, data |-> data,
     pre |-> str, key |-> <<>>, pad |-> <<>>, def |-> NoDefault, post |-> <<>>]

InitReplace ==
    /\ Quiet
    /\ env = EnvOf(Undef, Undef, Str(S_bucket), Str(S_secret))
    /\ arg \in {MarkerCall(pre, key, pad, def, post, data) :
                    pre \in {<<>>, <<"H", "i", " ">>}, key \in KeySamples,
                    pad \in {<<>>, <<" ">>, <<"U+00A0">>},
                    def \in DefaultForms, post \in PostSamples, data \in BagSamples}
               \cup {PlainCall(str, data) : str \in PlainSamples, data \in BagSamples}
    /\ ret = NullV

ApplyReplace ==
    /\ arg.fn = "replacePlaceholders"
    /\ ret = NullV
    /\ ret' = IF ReplaceThrows(arg.str, 1, arg.data) THEN Throws("TypeError")
              ELSE Str(replacePlaceholders(arg.str, arg.data))
    /\ UNCHANGED arg
    /\ QuietUnchanged

NextReplace == ApplyReplace

SpecReplace == InitReplace /\ [][NextReplace]_vars

-----------------------------------------------------------------------------
(* Placeholder claims *)

Replaced == arg # NullV /\ arg.fn = "replacePlaceholders" /\ ret # NullV

\* what a dotted key denotes in a data bag: the string form of the value found
\* by walking the nested mappings (none for the object that has no string
\* form), or null when a segment is absent, the bag is not a mapping there, or
\* the value is null
Shown(data, key) ==
    IF data # PlaceholderBag THEN NullV
    ELSE IF key = <<"c", "u", "s", "t", "o", "m", "e", "r", "N", "a", "m", "e">> THEN Str(S_Jane)
    ELSE IF key = <<"b", "r", "a", "n", "d", ".", "b", "r", "a", "n", "d", "N", "a", "m", "e">> THEN Str(S_Yokweb)
    ELSE IF key = <<"c", "o", "u", "n", "t">> THEN Str(<<"0">>)
    ELSE IF key = <<"a">> THEN Str(<<"{", "{", "b", "}", "}">>)
    ELSE IF key = <<"b">> THEN Str(<<"X">>)
    ELSE IF key = <<"t", "o", "t", "a", "l">> THEN Str(<<"2", "5", "0">>)
    ELSE IF key = Chars("notificationId.name") THEN Str(Chars("Object"))
    ELSE IF key = Chars("extra") THEN Throws("TypeError")
    ELSE NullV

\* what the text after the marker becomes: its marker {{b}} is substituted when
\* b is in the bag
PostOut(post, data) ==
    IF post = <<" ", "{", "{", "b", "}", "}">> /\ Shown(data, <<"b">>) # NullV
    THEN <<" ">> \o Shown(data, <<"b">>).s
    ELSE post

\* the marker of the call is missing from the bag
MissingKey == Replaced /\ arg.form = "marker" /\ Shown(arg.data, arg.key) = NullV

\* the marker of the call resolves to a non-null value
PresentKey == Replaced /\ arg.form = "marker" /\ Shown(arg.data, arg.key) # NullV

\* C23: a marker whose dotted key is not found, or resolves to null, is replaced
\* by the trimmed default text when a default was supplied and by the marker
\* text {{key}} otherwise; the text around it is kept.
C23_MissingKeyYieldsDefaultOrMarker ==
    MissingKey =>
        ret = Str(Cat(<<arg.pre,
                        IF arg.def.given THEN trim(arg.def.text)
                        ELSE Cat(<<<<"{", "{">>, arg.key, <<"}", "}">>>>),
                        PostOut(arg.post, arg.data)>>))

\* the same for the keys that name no property of a string and the markers
\* without whitespace before the pipe
MissingKeyInCompactMarker ==
    (MissingKey /\ arg.def.pre = <<>> /\ arg.key # <<"c", "u", "s", "t", "o", "m", "e", "r", "N", "a", "m", "e", ".", "l", "e", "n", "g", "t", "h">>) =>
        ret = Str(Cat(<<arg.pre,
                        IF arg.def.given THEN trim(arg.def.text)
                        ELSE Cat(<<<<"{", "{">>, arg.key, <<"}", "}">>>>),
                        PostOut(arg.post, arg.data)>>))

\* C24: a marker {{ key }} or {{ key | default }}, with optional whitespace
\* around the key and around the pipe, whose key resolves to a non-null value is
\* replaced as a whole by the value's string form, and no such marker is left.
C24_PresentKeyIsSubstituted ==
    PresentKey =>
        /\ ret # Throws("TypeError")
        /\ ret = Str(Cat(<<arg.pre, Shown(arg.data, arg.key).s,
                           PostOut(arg.post, arg.data)>>))
        /\ ~Contains(ret.s, MarkerText(arg.key, arg.pad, arg.def))

\* the same for the markers without whitespace before the pipe, when the value
\* has a string form
PresentKeyInCompactMarker ==
    (PresentKey /\ arg.def.pre = <<>> /\ Shown(arg.data, arg.key) # Throws("TypeError")) =>
        /\ ret = Str(Cat(<<arg.pre, Shown(arg.data, arg.key).s,
                           PostOut(arg.post, arg.data)>>))
        /\ ~Contains(ret.s, MarkerText(arg.key, arg.pad, arg.def))

\* a text holds no marker: no pair of double braces encloses a key character
NoMarker(s) ==
    \A i \in 1..Len(s), j \in 1..Len(s) :
        ~(/\ i + 2 <= j
          /\ StartsAt(s, i, <<"{", "{">>) /\ StartsAt(s, j, <<"}", "}">>)
          /\ \E k \in (i + 2)..(j - 1) : s[k] \in KeyChars)

\* C25: for every text that contains no marker and every data bag,
\* replacePlaceholders returns the text unchanged.
C25_NoMarkerTextIsUnchanged ==
    (Replaced /\ NoMarker(arg.str)) => ret = Str(arg.str)

C25_Witness ==
    /\ Replaced /\ NoMarker(arg.str)
    /\ arg.str = <<" ", "a", " ", "{", " ", "b", " ", "}", " ">> /\ arg.data = PlaceholderBag
    /\ ret = Str(arg.str)

\* C26: when the value a marker resolves to is itself marker text ({{b}}), that
\* text is in the output verbatim and is not substituted in the same call, even
\* though key b is in the data bag.
C26_ResolvedValueIsNotRescanned ==
    (Replaced /\ arg.form = "marker" /\ arg.key = <<"a">> /\ ~arg.def.given
        /\ arg.data = PlaceholderBag) =>
        ret = Str(Cat(<<arg.pre, <<"{", "{", "b", "}", "}">>, PostOut(arg.post, arg.data)>>))

C26_Witness ==
    /\ Replaced /\ arg.form = "marker" /\ arg.key = <<"a">> /\ ~arg.def.given
    /\ arg.data = PlaceholderBag /\ arg.post = <<" ", "{", "{", "b", "}", "}">>
    /\ ret = Str(Cat(<<arg.pre, <<"{", "{", "b", "}", "}", " ", "X">>>>))

-----------------------------------------------------------------------------
(* The subject line *)

\* line breaks and the other control characters of the alphabet
ControlChars == {"\n", "\r", "\t"}

\* a text is a single line without whitespace at either end
SingleLine(s) ==
    /\ \A i \in 1..Len(s) : s[i] \notin ControlChars
    /\ s = <<>> \/ (s[1] \notin WhiteSpace /\ s[Len(s)] \notin WhiteSpace)

\* C27: every subject returned by rendering, from a stored subject template or
\* from the built-in default, is a single line: no line break or other control
\* character in it, and no whitespace at its start or end.
C27_SubjectIsASingleLine ==
    (RenderCalled /\ ret.rpc = "done") =>
        /\ IsStr(ret.result.subject)
        /\ SingleLine(ret.result.subject.s)

\* the built-in default subject is a single line
BuiltInSubjectIsASingleLine ==
    (RenderCalled /\ ret.rpc = "done" /\ ret.subjHit = 0) =>
        /\ IsStr(ret.result.subject)
        /\ SingleLine(ret.result.subject.s)

-----------------------------------------------------------------------------
(* src/index.js: formatAmount as a function of its inputs *)

\* the quotient a / b of two integers, kept exact
Quot(a, b) == [num |-> a, den |-> b]

RECURSIVE Zeros(_)
Zeros(n) == IF n <= 0 THEN <<>> ELSE <<"0">> \o Zeros(n - 1)

\* (p * 2^e) % q without forming p * 2^e, eight bits at a time, for q below 2^23
RECURSIVE ShiftMod(_, _, _)
ShiftMod(p, e, q) ==
    IF e = 0 THEN p % q
    ELSE IF e >= 8 THEN ShiftMod((256 * (p % q)) % q, e - 8, q)
    ELSE ShiftMod((2 * (p % q)) % q, e - 1, q)

\* the binary exponent of p / q: the k with 2^k <= p / q < 2^(k + 1), p, q > 0
RECURSIVE Log2Floor(_, _, _)
Log2Floor(p, q, k) ==
    IF p >= q
    THEN (IF p \div 2 >= q THEN Log2Floor(p \div 2, q, k + 1) ELSE k)
    ELSE Log2Floor(p, (q + 1) \div 2, k - 1)

\* where the double nearest to p / q lies: a / b in the code is that double, the
\* multiple of 2^-e nearest to the quotient (of two, the even one), with e the
\* exponent that leaves 53 significant bits
DoubleSide(p, q) ==
    LET e == 52 - Log2Floor(p, q, 0)
        r == ShiftMod(p, e, q)
        odd == ShiftMod(p, e, 2 * q) >= q
    IN IF r = 0 THEN "exact"
       ELSE IF 2 * r < q THEN "below"
       ELSE IF 2 * r > q THEN "above"
       ELSE IF odd THEN "above" ELSE "below"

\* Number.prototype.toFixed(f) of a quotient of magnitude below 10^21: a sign for
\* a negative number, then n, the integer nearest to the double's magnitude times
\* 10^f (the larger of two), its digits padded with zeros to f + 1 places and the
\* point put before the last f
toFixed(x, f) ==
    LET p == IF x.num < 0 THEN 0 - x.num ELSE x.num
        q == IF x.den < 0 THEN 0 - x.den ELSE x.den
        negative == p # 0 /\ ((x.num < 0) # (x.den < 0))
        whole == (p * (10 ^ f)) \div q
        rest == (p * (10 ^ f)) % q
        n == IF 2 * rest < q THEN whole
             ELSE IF 2 * rest > q THEN whole + 1
             ELSE IF DoubleSide(p, q) = "below" THEN whole
             ELSE whole + 1
        m == NumStr(n)
        padded == Zeros(f + 1 - Len(m)) \o m
        k == Len(padded)
    IN (IF negative THEN <<"-">> ELSE <<>>) \o
       (IF f = 0 THEN padded
        ELSE SubSeq(padded, 1, k - f) \o <<".">> \o SubSeq(padded, k - f + 1, k))

\* an amount the other way round: amount_due before amount_paid
formatAmount_DueFirst(inv) ==
    LET cents == JsNullish(JsNullish(inv.amount_due, inv.amount_paid), Num(0))
        cur == toUpperCase(ToStr(JsOr(inv.currency, Str(<<>>))))
    IN IF Unprintable(JsOr(inv.currency, Str(<<>>))) THEN Throws("TypeError")
       ELSE Cat(<<toFixed(Quot(cents.n, 100), 2), <<" ">>, cur>>)

\* function formatAmount(inv): the text, or what String(inv.currency) threw
formatAmount(inv) ==
    LET cents == JsNullish(JsNullish(inv.amount_paid, inv.amount_due), Num(0))
        amount == Quot(cents.n, 100)
        cur == toUpperCase(ToStr(JsOr(inv.currency, Str(<<>>))))
    IN IF Unprintable(JsOr(inv.currency, Str(<<>>))) THEN Throws("TypeError")
       ELSE Cat(<<toFixed(amount, 2), <<" ">>, cur>>)

\* amounts in minor units
AmountSamples == {0, 5, 99, 100, 1005, 59000, 1234567}

\* currency codes as the event source and a fixture may write them
CurrencySamples == {<<"e", "u", "r">>, <<"U", "S", "D">>, <<"p", "l", "n">>, <<"G", "b", "p">>}

\* the invoices explored: each amount field absent, null or a number
AmountInvoices ==
    {[t |-> "object", amount_paid |-> p, amount_due |-> d, currency |-> Str(c)] :
        p \in {Undef, NullV} \cup {Num(m) : m \in AmountSamples},
        d \in {Undef} \cup {Num(m) : m \in AmountSamples},
        c \in CurrencySamples}

InitFormat ==
    /\ Quiet
    /\ env = EnvOf(Undef, Undef, Str(S_bucket), Str(S_secret))
    /\ arg \in {[fn |-> "formatAmount", inv |-> i] : i \in AmountInvoices}
    /\ ret = NullV

ApplyFormat ==
    /\ arg.fn = "formatAmount"
    /\ ret = NullV
    /\ ret' = Str(formatAmount(arg.inv))
    /\ UNCHANGED arg
    /\ QuietUnchanged

NextFormat == ApplyFormat

SpecFormat == InitFormat /\ [][NextFormat]_vars

-----------------------------------------------------------------------------
(* Amount claims *)

Formatted == arg # NullV /\ arg.fn = "formatAmount" /\ ret # NullV

\* the amount used: amount_paid when present, else amount_due, else 0
AmountUsed(inv) ==
    IF inv.amount_paid.t = "number" THEN inv.amount_paid.n
    ELSE IF inv.amount_due.t = "number" THEN inv.amount_due.n
    ELSE 0

\* <m div 100>.<m mod 100 as two digits>
MajorMinor(m) ==
    NumStr(m \div 100) \o <<".", Digits[((m % 100) \div 10) + 1], Digits[(m % 10) + 1]>>

\* C28: the formatted amount of m minor units in currency c is
\* "<m div 100>.<m mod 100 as two digits> <c in upper case>", where m is
\* amount_paid when present, else amount_due, else 0.
C28_AmountInMajorUnits ==
    Formatted =>
        /\ ret = Str(MajorMinor(AmountUsed(arg.inv)) \o <<" ">> \o toUpperCase(arg.inv.currency.s))
        /\ (AmountUsed(arg.inv) = 59000 /\ toUpperCase(arg.inv.currency.s) = <<"E", "U", "R">>)
              => ret = Str(<<"5", "9", "0", ".", "0", "0", " ", "E", "U", "R">>)

\* a paid amount of zero is present and is used, although an amount is due
C28_Witness ==
    /\ Formatted
    /\ arg.inv.amount_paid = Num(0) /\ arg.inv.amount_due = Num(59000)
    /\ arg.inv.currency = Str(<<"e", "u", "r">>)
    /\ ret = Str(<<"0", ".", "0", "0", " ", "E", "U", "R">>)

\* 59000 minor units in EUR are 590.00 EUR
C28_Example ==
    /\ Formatted
    /\ arg.inv.amount_paid = NullV /\ arg.inv.amount_due = Num(59000)
    /\ ret \in {Str(<<"5", "9", "0", ".", "0", "0", " ", "E", "U", "R">>), Str(<<"5", "9", "0", ".", "0", "0", " ", "U", "S", "D">>), Str(<<"5", "9", "0", ".", "0", "0", " ", "P", "L", "N">>), Str(<<"5", "9", "0", ".", "0", "0", " ", "G", "B", "P">>)}

-----------------------------------------------------------------------------
(* The template store: the loader renderEmail runs (src/renderEmail.js) and  *)
(* the loader and cache of src/index.js, one action per resumption           *)

\* the lookups in flight at once
Tasks == {"t1", "t2"}

\* the lookups started in a run
MaxLookups == 3

\* const TEMPLATES_BUCKET = process.env.TEMPLATES_BUCKET || ""
IndexTemplatesBucket == JsOr(Env("TEMPLATES_BUCKET"), Str(<<>>))

\* the arguments of a lookup through index.js
TemplateArgs ==
    {[brand |-> Str(S_yokweb), service |-> Str(S_hosting), locale |-> l] :
        l \in {Str(S_en), Str(S_pl)}}

\* the arguments of a lookup through renderEmail.js, as renderEmail passes them
\* for the handler's call: the normalized kind and no service id
RenderTemplateArgs ==
    {[brand |-> Str(S_yokweb), notificationId |-> Str(S_payment_paid),
      serviceId |-> NullV, locale |-> Str(S_pl)]}

\* const key = `${brand}/${service}/${locale}.html`
TemplateKey(a) ==
    Cat(<<ToStr(a.brand), <<"/">>, ToStr(a.service), <<"/">>, ToStr(a.locale), <<".", "h", "t", "m", "l">>>>)

\* what the store may hold at a key: the template, before and after an update
StoreContents(key) ==
    { Cat(<<<<"<", "p", ">">>, key, <<" ", "v", "1", "<", "/", "p", ">">>>>), Cat(<<<<"<", "p", ">">>, key, <<" ", "v", "2", "<", "/", "p", ">">>>>) }

\* how file.download() and readGcsText(p) may settle for a key
DownloadReplies(key) ==
    {[k |-> "hit", text |-> c] : c \in StoreContents(key)} \cup {[k |-> "throw"]}

\* a lookup: its position, the path it is at, its result, how the result was
\* obtained, the lookups the task has started, and, for a lookup through
\* renderEmail.js, its arguments and its index in tryPaths
IdleTask ==
    [pc |-> "idle", key |-> <<>>, result |-> NullV, via |-> "none", n |-> 0,
     a |-> NullV, i |-> 0]

\* the store's state: the cache of index.js, the lookups, and the remote reads
\* issued so far
CacheFresh ==
    [tplCache |-> EmptyMap, task |-> [t \in Tasks |-> IdleTask], fetches |-> 0]

LookupsStarted == ret.task["t1"].n + ret.task["t2"].n

InitCache ==
    /\ Quiet
    /\ env \in {RenderEnvOf(Str(S_bucket), Str(S_tplbucket)), RenderEnvOf(Str(S_bucket), Undef)}
    /\ arg = [fn |-> "loadTemplate"]
    /\ ret = CacheFresh

\* renderEmail.js:37-46: loadTemplate up to its first await: the first of
\* tryPaths is read from the store; there is no cache to consult
RenderLoadTemplate(t, a) ==
    /\ arg.fn = "loadTemplate"
    /\ ret.task[t].pc \in {"idle", "returned"}
    /\ LookupsStarted < MaxLookups
    /\ ret' = [ret EXCEPT !.task[t] = [pc |-> "reading",
                                       key |-> TemplatePaths(a.brand, a.notificationId,
                                                             a.serviceId, a.locale)[1],
                                       result |-> NullV, via |-> "read",
                                       n |-> ret.task[t].n + 1, a |-> a, i |-> 1],
                          !.fetches = @ + 1]
    /\ UNCHANGED arg
    /\ QuietUnchanged

\* renderEmail.js:44-51: readGcsText(p) settled: the text is returned and kept
\* nowhere; after a failure the next of tryPaths is read, and after the last
\* the built-in document is returned
ReadGcsReply(t) ==
    /\ arg.fn = "loadTemplate"
    /\ ret.task[t].pc = "reading"
    /\ \E r \in DownloadReplies(ret.task[t].key) :
          LET cur == ret.task[t]
              tryPaths == TemplatePaths(cur.a.brand, cur.a.notificationId,
                                        cur.a.serviceId, cur.a.locale)
          IN ret' = IF r.k = "hit"
                    THEN [ret EXCEPT !.task[t].pc = "returned",
                                     !.task[t].result = Str(r.text)]
                    ELSE IF cur.i < Len(tryPaths)
                    THEN [ret EXCEPT !.task[t].i = cur.i + 1,
                                     !.task[t].key = tryPaths[cur.i + 1],
                                     !.fetches = @ + 1]
                    ELSE [ret EXCEPT !.task[t].pc = "returned",
                                     !.task[t].result =
                                         Str(FallbackDocument(cur.a.notificationId, cur.a.locale)),
                                     !.task[t].via = "fallback"]
    /\ UNCHANGED arg
    /\ QuietUnchanged

\* index.js:75-81: loadTemplate up to its await: null without a bucket, the
\* cached text when the key is cached, a download otherwise; nothing in
\* index.js calls this function
loadTemplate(t, a) ==
    /\ arg.fn = "loadTemplate"
    /\ ret.task[t].pc \in {"idle", "returned"}
    /\ LookupsStarted < MaxLookups
    /\ LET key == TemplateKey(a)
           started == [IdleTask EXCEPT !.key = key, !.n = ret.task[t].n + 1]
       IN ret' = IF ~Truthy(IndexTemplatesBucket)
                 THEN [ret EXCEPT !.task[t] = [started EXCEPT !.pc = "returned",
                                                 !.result = NullV, !.via = "none"]]
                 ELSE IF key \in DOMAIN ret.tplCache
                 THEN [ret EXCEPT !.task[t] = [started EXCEPT !.pc = "returned",
                                                 !.result = Str(ret.tplCache[key]),
                                                 !.via = "cache"]]
                 ELSE [ret EXCEPT !.task[t] = [started EXCEPT !.pc = "fetching",
                                                 !.result = NullV, !.via = "fetch"],
                                  !.fetches = @ + 1]
    /\ UNCHANGED arg
    /\ QuietUnchanged

\* a loader whose key is shared by the lookups in flight: the text is cached under
\* the key of the lookup started by the other task
DownloadReply_SharedKey(t, r) ==
    /\ arg.fn = "loadTemplate"
    /\ ret.task[t].pc = "fetching"
    /\ r \in DownloadReplies(ret.task[t].key)
    /\ LET other == CHOOSE u \in Tasks : u # t
           key == IF ret.task[other].n > 0 THEN ret.task[other].key ELSE ret.task[t].key
       IN ret' = IF r.k = "hit"
                 THEN [ret EXCEPT !.tplCache = MapSet(@, key, r.text),
                                  !.task[t].pc = "returned",
                                  !.task[t].result = Str(r.text)]
                 ELSE [ret EXCEPT !.task[t].pc = "returned", !.task[t].result = NullV]
    /\ UNCHANGED arg
    /\ QuietUnchanged

\* index.js:81-88: the download settled: the text is cached and returned, or the
\* failure is logged and null returned
DownloadReply(t, r) ==
    /\ arg.fn = "loadTemplate"
    /\ ret.task[t].pc = "fetching"
    /\ r \in DownloadReplies(ret.task[t].key)
    /\ ret' = IF r.k = "hit"
              THEN [ret EXCEPT !.tplCache = MapSet(@, ret.task[t].key, r.text),
                               !.task[t].pc = "returned",
                               !.task[t].result = Str(r.text)]
              ELSE [ret EXCEPT !.task[t].pc = "returned", !.task[t].result = NullV]
    /\ UNCHANGED arg
    /\ QuietUnchanged

NextCache ==
    \/ \E t \in Tasks, a \in RenderTemplateArgs : RenderLoadTemplate(t, a)
    \/ \E t \in Tasks : ReadGcsReply(t)
    \/ \E t \in Tasks, a \in TemplateArgs : loadTemplate(t, a)
    \/ \E t \in Tasks, k \in {TemplateKey(a) : a \in TemplateArgs} :
          \E r \in DownloadReplies(k) : DownloadReply(t, r)

SpecCache == InitCache /\ [][NextCache]_vars

-----------------------------------------------------------------------------
(* Template cache claims *)

CacheRun == arg # NullV /\ arg.fn = "loadTemplate"

\* task t starts a lookup in this step
LookupStarts(t) == ret'.task[t].n = ret.task[t].n + 1

\* the last lookup of task u has returned the content the store holds at the path
FetchedBy(u, key) ==
    /\ ret.task[u].pc = "returned"
    /\ ret.task[u].key = key
    /\ ret.task[u].via \in {"read", "fetch", "cache"}
    /\ ret.task[u].result # NullV

\* the path has been fetched successfully: it is in the cache, or a task holds
\* the content its last lookup fetched from the path
FetchedOnce(key) == key \in DOMAIN ret.tplCache \/ \E u \in Tasks : FetchedBy(u, key)

\* C29: with a template-store location configured, every lookup of a path that
\* has been fetched successfully returns content without a remote read, and the
\* cached content when the path is in the cache; a lookup of a path that has not
\* been fetched issues a remote read; a failed read leaves the cache as it is;
\* and no path leaves the cache.
C29_CachedPathIsNotFetchedAgain ==
    [][ (CacheRun /\ Truthy(Env("TEMPLATES_BUCKET"))) =>
          /\ \A t \in Tasks :
                /\ (LookupStarts(t) /\ FetchedOnce(ret'.task[t].key)) =>
                      /\ ret'.task[t].pc = "returned"
                      /\ ret'.task[t].result # NullV
                      /\ ret'.task[t].key \in DOMAIN ret.tplCache =>
                            ret'.task[t].result = Str(ret.tplCache[ret'.task[t].key])
                      /\ ret'.fetches = ret.fetches
                      /\ ret'.tplCache = ret.tplCache
                /\ (LookupStarts(t) /\ ~FetchedOnce(ret'.task[t].key)) =>
                      /\ ret'.task[t].pc \in {"fetching", "reading"}
                      /\ ret'.fetches = ret.fetches + 1
                /\ (ret.task[t].pc \in {"fetching", "reading"}
                        /\ ret'.task[t] # ret.task[t]
                        /\ ret'.task[t].result = NullV) =>
                      ret'.tplCache = ret.tplCache
          /\ DOMAIN ret.tplCache \subseteq DOMAIN ret'.tplCache ]_vars

\* task t starts a lookup through the loader of index.js in this step
IndexLookupStarts(t) == LookupStarts(t) /\ ret'.task[t].via # "read"

\* the loader of index.js, which nothing calls, does keep such a cache: a lookup
\* of a cached path returns the cached content without a download and leaves the
\* cache as it is, a lookup of another path issues a download, a failed download
\* leaves the cache as it is, and no path leaves the cache
IndexLoaderKeepsItsCache ==
    [][ (CacheRun /\ Truthy(Env("TEMPLATES_BUCKET"))) =>
          /\ \A t \in Tasks :
                /\ (IndexLookupStarts(t) /\ ret'.task[t].key \in DOMAIN ret.tplCache) =>
                      /\ ret'.task[t].pc = "returned"
                      /\ ret'.task[t].result = Str(ret.tplCache[ret'.task[t].key])
                      /\ ret'.fetches = ret.fetches
                      /\ ret'.tplCache = ret.tplCache
                /\ (IndexLookupStarts(t) /\ ret'.task[t].key \notin DOMAIN ret.tplCache) =>
                      /\ ret'.task[t].pc = "fetching"
                      /\ ret'.fetches = ret.fetches + 1
                /\ (ret.task[t].pc = "fetching" /\ ret'.task[t].pc = "returned"
                        /\ ret'.task[t].result = NullV) =>
                      ret'.tplCache = ret.tplCache
          /\ DOMAIN ret.tplCache \subseteq DOMAIN ret'.tplCache ]_vars

\* one lookup through index.js was answered from the cache, and another failed
\* and left its path out of the cache
IndexLoaderCacheHit ==
    /\ CacheRun
    /\ \E t, u \in Tasks :
          /\ ret.task[t].pc = "returned" /\ ret.task[t].via = "cache"
          /\ ret.task[t].key \in DOMAIN ret.tplCache
          /\ ret.task[t].result = Str(ret.tplCache[ret.task[t].key])
          /\ ret.task[u].pc = "returned" /\ ret.task[u].via = "fetch"
          /\ ret.task[u].result = NullV
          /\ ret.task[u].key \notin DOMAIN ret.tplCache
          /\ ret.fetches = 2

\* a lookup through renderEmail.js never reads or writes the cache: each of its
\* steps issues a remote read or returns, and the cache stays as it is
RenderLoaderHasNoCache ==
    [][ CacheRun =>
          \A t \in Tasks :
              (ret'.task[t] # ret.task[t] /\ ret'.task[t].via \in {"read", "fallback"}) =>
                  /\ ret'.tplCache = ret.tplCache
                  /\ LookupStarts(t) => ret'.fetches = ret.fetches + 1 ]_vars

\* a path that one lookup through renderEmail.js has fetched is being read from
\* the store again by the next lookup of the same task
RenderLoaderReadsAgain ==
    /\ CacheRun
    /\ Truthy(Env("TEMPLATES_BUCKET"))
    /\ \E t \in Tasks :
          /\ ret.task[t].pc = "reading" /\ ret.task[t].n = 2 /\ ret.task[t].i = 1
          /\ ret.fetches = 2
          /\ ret.tplCache = EmptyMap

-----------------------------------------------------------------------------
(* src/utils/gcs.js: readGcsText as renderEmail.js calls it *)

\* the i-th argument of a call, undefined when the call passes fewer
ArgAt(args, i) == IF i <= Len(args) THEN args[i] ELSE Undef

\* rest.join('/')
RECURSIVE Join(_, _)
Join(parts, sep) ==
    IF parts = <<>> THEN <<>>
    ELSE IF Len(parts) = 1 THEN parts[1]
    ELSE parts[1] \o sep \o Join(Tail(parts), sep)

\* bucketName.replace(/^gs:\/\//, "")
StripScheme(s) == IF StartsAt(s, 1, <<"g", "s", ":", "/", "/">>) THEN Slice(s, 6, Len(s)) ELSE s

\* the object a read asks the store for, or the error it throws before asking
Address(bucket, object) == [k |-> "address", bucket |-> bucket, object |-> object]

\* new Storage(): the store client, the one value with a bucket method
StorageClient == [t |-> "storage"]

\* gcs.js:12-26, export async function readGcsText(storage, bucketName, filePath):
\* a truthy bucketName that is no string has no replace method, and a storage
\* that is no client has no bucket method
readGcsText_BucketPath(args) ==
    LET storage == ArgAt(args, 1)
        bucketName == ArgAt(args, 2)
        filePath == ArgAt(args, 3)
    IN IF ~Truthy(bucketName) THEN Throws("GCS: bucketName is empty")
       ELSE IF bucketName.t # "string" THEN Throws("TypeError")
       ELSE IF ~Truthy(filePath) THEN Throws("GCS: filePath is empty")
       ELSE IF storage # StorageClient THEN Throws("TypeError")
       ELSE Address(Str(StripScheme(bucketName.s)), filePath)

\* gcs.js:53-58, export async function readGcsText(gcsUrl)
readGcsText_Url(args) ==
    LET parts == Split(ArgAt(args, 1).s, "/")
        bucketName == IF Len(parts) >= 3 THEN Str(parts[3]) ELSE Undef
        rest == SubSeq(parts, 4, Len(parts))
    IN Address(bucketName, Str(Join(rest, <<"/">>)))

\* the module holds both definitions; a build keeps one of them
readGcsText(rev, args) ==
    IF rev = 1 THEN readGcsText_BucketPath(args) ELSE readGcsText_Url(args)

\* renderEmail.js:26-30: loadBrand reads readGcsText(bucket, path)
BrandReadArgs(container, path) == <<Str(container), Str(path)>>

\* renderEmail.js:38-46: loadTemplate and loadSubject read readGcsText(p) with
\* p = `${TEMPLATES_BUCKET}/...`
TemplateReadArgs(container, path) == <<Str(Cat(<<container, <<"/">>, path>>))>>

\* the container identifier with or without the scheme prefix
Container(bucket, scheme) == IF scheme THEN <<"g", "s", ":", "/", "/">> \o bucket ELSE bucket

\* the arguments a call site passes for a bucket and an object path
ReadArgs(a) ==
    IF a.site = "loadBrand" THEN BrandReadArgs(Container(a.bucket, a.scheme), a.path)
    ELSE TemplateReadArgs(Container(a.bucket, a.scheme), a.path)

BucketSamples ==
    { <<"y", "o", "k", "w", "e", "b", "-", "m", "a", "i", "l", "-", "t", "e", "m", "p", "l", "a", "t", "e", "s">>,
      <<"t", "p", "l">>, <<"a", "s", "s", "e", "t", "s">>, <<"y", "o", "k", "w", "e", "b", "-", "b", "i", "l", "l", "i", "n", "g", "-", "0", "0", "1", "-", "e", "m", "a", "i", "l", "-", "a", "s", "s", "e", "t", "s">> }

BrandPathSamples == {<<"b", "r", "a", "n", "d", "s", "/", "y", "o", "k", "w", "e", "b", ".", "j", "s", "o", "n">>, <<"b", "r", "a", "n", "d", "s", "/", "t", "r", "u", "e", "w", "e", "b", ".", "j", "s", "o", "n">>}

TemplatePathSamples ==
    { <<"y", "o", "k", "w", "e", "b", "/", "p", "a", "y", "m", "e", "n", "t", "-", "p", "a", "i", "d", "/", "e", "n", ".", "h", "t", "m", "l">>, <<"y", "o", "k", "w", "e", "b", "/", "s", "e", "r", "v", "i", "c", "e", "s", "/", "h", "o", "s", "t", "i", "n", "g", "/", "p", "l", ".", "h", "t", "m", "l">>,
      <<"y", "o", "k", "w", "e", "b", "/", "p", "a", "y", "m", "e", "n", "t", "-", "p", "a", "i", "d", "/", "e", "n", ".", "s", "u", "b", "j", "e", "c", "t", ".", "t", "x", "t">> }

InitGcs ==
    /\ Quiet
    /\ env = EnvOf(Undef, Undef, Str(S_bucket), Str(S_secret))
    /\ arg \in {[fn |-> "readGcsText", rev |-> r, site |-> "loadBrand", bucket |-> b,
                 scheme |-> s, path |-> p] :
                    r \in {1, 2}, b \in BucketSamples, s \in BOOLEAN, p \in BrandPathSamples}
               \cup {[fn |-> "readGcsText", rev |-> r, site |-> "loadTemplate", bucket |-> b,
                      scheme |-> s, path |-> p] :
                    r \in {1, 2}, b \in BucketSamples, s \in BOOLEAN, p \in TemplatePathSamples}
    /\ ret = NullV

ApplyGcs ==
    /\ arg.fn = "readGcsText"
    /\ ret = NullV
    /\ ret' = readGcsText(arg.rev, ReadArgs(arg))
    /\ UNCHANGED arg
    /\ QuietUnchanged

NextGcs == ApplyGcs

SpecGcs == InitGcs /\ [][NextGcs]_vars

-----------------------------------------------------------------------------
(* Store client claims *)

ReadDone == arg # NullV /\ arg.fn = "readGcsText" /\ ret # NullV

\* C30: for every bucket name b and path p, the read of ("gs://" + b, p) and the
\* read of (b, p) both address bucket b and object p, in the brand-config read
\* and in the template reads, and so address the same as each other.
C30_SchemePrefixIsTolerated ==
    ReadDone =>
        /\ ret = Address(Str(arg.bucket), Str(arg.path))
        /\ ret = readGcsText(arg.rev, ReadArgs([arg EXCEPT !.scheme = ~@]))

\* the one read that addresses its object: a template read of the URL form with
\* the scheme prefix
UrlTemplateReadWithSchemeIsAddressed ==
    (ReadDone /\ arg.rev = 2 /\ arg.site = "loadTemplate" /\ arg.scheme) =>
        ret = Address(Str(arg.bucket), Str(arg.path))

\* every other read throws or addresses another bucket or object
OtherReadsMissTheirObject ==
    (ReadDone /\ ~(arg.rev = 2 /\ arg.site = "loadTemplate" /\ arg.scheme)) =>
        ret # Address(Str(arg.bucket), Str(arg.path))

-----------------------------------------------------------------------------
(* Event kinds *)

\* the event types of the three kinds the statement names, the paid, the failed
\* and the renewed invoice (a renewal arrives as a paid invoice of a subscription
\* cycle); the handler acts on HandledTypes alone
PaidFailedRenewedTypes == {"invoice.paid", "invoice.payment_failed"}

\* the process is configured and the event passed signature verification
Authenticated(h) ==
    /\ ev[h] # 0
    /\ Truthy(Env("STRIPE_WEBHOOK_SECRET")) /\ Truthy(Env("STRIPE_SECRET_KEY"))
    /\ Events[ev[h]].sigOk

\* the event names a recipient and no suppression check denied it
UsableUnsuppressedRecipient(h) ==
    /\ Truthy(Events[ev[h]].customer_email)
    /\ Count(log[h], "deny") = 0

\* C31: an authenticated event of the paid, failed or renewed invoice kind with a
\* usable, unsuppressed recipient, once it has been responded to, has had one
\* email rendered and one dispatched.
C31_NotifiedKindsAreMailed ==
    \A h \in Handlers :
        (/\ pc[h] = "done" /\ Authenticated(h)
         /\ Events[ev[h]].type \in PaidFailedRenewedTypes
         /\ UsableUnsuppressedRecipient(h)) =>
            /\ Count(log[h], "renderEmail") = 1
            /\ Count(log[h], "sendWithSES") = 1

\* the same for the paid kind alone
PaidInvoiceIsMailed ==
    \A h \in Handlers :
        (/\ pc[h] = "done" /\ Authenticated(h)
         /\ Events[ev[h]].type \in HandledTypes
         /\ UsableUnsuppressedRecipient(h)) =>
            /\ Count(log[h], "renderEmail") = 1
            /\ Count(log[h], "sendWithSES") = 1

-----------------------------------------------------------------------------
(* src/renderEmail.js: the text alternative as a function of the final HTML *)

\* the style sheet of the samples
SampleCss == <<"p", "{", "c", "o", "l", "o", "r", ":", "r", "e", "d", "}">>

\* how the final HTML may hold the style sheet: not at all, in a style block, in
\* a style block written in capitals with an attribute and line breaks, in two
\* style blocks with a word between them
StyleBlocks ==
    { [css |-> <<>>, block |-> <<>>],
      [css |-> SampleCss,
       block |-> Cat(<<Chars("<style>"), SampleCss, Chars("</style>Hi<Style>"), SampleCss, Chars("</sTYLE>")>>)],
      [css |-> SampleCss, block |-> Cat(<<<<"<", "s", "t", "y", "l", "e", ">">>, SampleCss, <<"<", "/", "s", "t", "y", "l", "e", ">">>>>)],
      [css |-> SampleCss,
       block |-> Cat(<<<<"<", "S", "T", "Y", "L", "E", " ", "t", "y", "p", "e", "=", "\"", "t", "e", "x", "t", "/", "c", "s", "s", "\"", ">", "\n">>, SampleCss, <<"\n", "<", "/", "S", "T", "Y", "L", "E", ">">>>>)] }

\* document bodies: nested tags, an attribute, a void tag, angle brackets that
\* are not tags, and runs of whitespace
BodySamples ==
    { <<"<", "p", ">", "H", "i", " ", " ", "J", "a", "n", "e", "<", "/", "p", ">">>, <<"<", "a", " ", "h", "r", "e", "f", "=", "\"", "x", "\"", ">", "1", " ", "<", " ", "2", "<", "/", "a", ">", " ", "o", "k">>, <<"a", "<", "b", "r", "/", ">", "b">>, <<"<", ">", " ", "x", " ", ">", " ", "y">>,
      <<"<", "d", "i", "v", ">", "\n", "\t", "<", "b", ">", "P", "a", "i", "d", "<", "/", "b", ">", "\r", "\n", "<", "/", "d", "i", "v", ">">>,
      <<"<", "p", ">", "1", "U+00A0", "\f", "U+2028", "2", "U+000B", "<", "/", "p", ">">> }

HtmlSamples ==
    {[html |-> Cat(<<lead, st.block, body, tail>>), css |-> st.css] :
        lead \in {<<>>, <<" ">>, <<"\n">>, <<BOM>>}, st \in StyleBlocks, body \in BodySamples,
        tail \in {<<>>, <<"\r", "\n">>, <<"<", "p", ">", "<", "/", "p", ">">>}}

InitText ==
    /\ Quiet
    /\ env = EnvOf(Undef, Undef, Str(S_bucket), Str(S_secret))
    /\ arg \in {[fn |-> "text", html |-> x.html, css |-> x.css] : x \in HtmlSamples}
    /\ ret = NullV

ApplyText ==
    /\ arg.fn = "text"
    /\ ret = NullV
    /\ ret' = Str(TextOf(arg.html))
    /\ UNCHANGED arg
    /\ QuietUnchanged

NextText == ApplyText

SpecText == InitText /\ [][NextText]_vars

-----------------------------------------------------------------------------
(* Text alternative claims *)

TextDone == arg # NullV /\ arg.fn = "text" /\ ret # NullV

\* a text holds no markup tag: no "<", some characters other than ">", then ">"
NoTag(s) ==
    \A i \in 1..Len(s), j \in 1..Len(s) :
        ~(/\ s[i] = "<" /\ s[j] = ">" /\ j > i + 1
          /\ \A k \in (i + 1)..(j - 1) : s[k] # ">")

\* a text holds no run of two or more whitespace characters
NoWhitespaceRun(s) ==
    \A i \in 1..(Len(s) - 1) : ~(s[i] \in WhiteSpace /\ s[i + 1] \in WhiteSpace)

\* a text has no whitespace at its start or end
Trimmed(s) == s = <<>> \/ (s[1] \notin WhiteSpace /\ s[Len(s)] \notin WhiteSpace)

TextBetweenStyleBlocksIsKept ==
    /\ TextDone
    /\ arg.html = Cat(<<Chars("<style>"), SampleCss, Chars("</style>Hi<Style>"), SampleCss, Chars("</sTYLE>"),
                        Chars("a<br/>b")>>)
    /\ ret = Str(Chars("Hia b"))

\* in a render, the text is the alternative of the HTML returned with it
RenderedTextIsPlain ==
    (RenderCalled /\ ret.rpc = "done") =>
        /\ NoTag(ret.result.text)
        /\ NoWhitespaceRun(ret.result.text)
        /\ Trimmed(ret.result.text)
        /\ ~Contains(ret.result.text, <<"c", "o", "l", "o", "r", ":", "r", "e", "d">>)

-----------------------------------------------------------------------------
(* The suppression cache under concurrently handled events *)

\* the address has a record in the local cache that isSuppressed would keep: its
\* age is at most the TTL
Live(map, email, t) == AgeClass(MapGet(map, email), t) \in {"young", "edge"}

\* the step in which handler h calls the transport
DispatchStep(h) == pc[h] = "render" /\ pc'[h] = "send"

\* C33: no handler calls the transport for an address that has a live record in
\* the local suppression cache at the moment of the call.
C33_NoSendToLiveSuppressedAddress ==
    [][\A h \in Handlers :
         DispatchStep(h) => ~Live(suppressed, hs[h].to.s, now)]_vars

\* at the moment of its own local check no handler that goes on has a live record
NoLiveRecordWhenGateAllows ==
    [][\A h \in Handlers :
         (GateStep(h) /\ pc'[h] = "ses") => ~Live(suppressed, hs'[h].to.s, now)]_vars

\* C34: while the record of an address is live no step replaces its timestamp
\* with a later one, so the record expires one TTL after the first observation.
C34_LiveRecordKeepsFirstTimestamp ==
    [][\A e \in DOMAIN suppressed :
         Live(suppressed, e, now) => MapGet(suppressed', e) <= MapGet(suppressed, e)]_vars

\* no step moves the timestamp of a record backwards or drops a live record
LiveRecordIsNeverAgedOrDropped ==
    [][\A e \in DOMAIN suppressed :
         Live(suppressed, e, now) => MapGet(suppressed', e) >= MapGet(suppressed, e)]_vars

-----------------------------------------------------------------------------
(* The brand used along the pipeline *)

\* index.js:398-403: the selection arguments of the renderEmail call of handler h
RenderArgs(h) ==
    [brandKey |-> Str(S_yokweb),
     locale |-> hs[h].locale,
     notificationId |-> hs[h].service,
     serviceId |-> NullV]

\* the handler has called the renderer
Rendering(h) == pc[h] \in {"render", "send"} /\ Count(log[h], "renderEmail") = 1

\* the handler has resolved brand and locale and chosen the sending configuration
Configured(h) == pc[h] \in {"ses", "render", "send"}

\* C35: the brand passed to the renderer is the brand the resolver produced for
\* the event, which is also the brand whose configuration serves the suppression
\* lookup and the send.
C35_RendererGetsResolvedBrand ==
    \A h \in Handlers :
        /\ Rendering(h) => RenderArgs(h).brandKey = hs[h].brand
        /\ Configured(h) => hs[h].cfg = BRAND_CFG(hs[h].brand)

\* the configuration of the suppression lookup and the send is that of the
\* resolved brand, and the renderer is handed the resolved locale
LookupAndSendUseResolvedBrand ==
    \A h \in Handlers :
        /\ Configured(h) => hs[h].cfg = BRAND_CFG(hs[h].brand)
        /\ Rendering(h) => RenderArgs(h).locale = hs[h].locale
        /\ Rendering(h) =>
              hs[h].brand = resolveBrandLocale(
                  InvOf(Events[ev[h]], hs[h].expanded), hs[h].customerObj,
                  LineMetaOf(InvOf(Events[ev[h]], hs[h].expanded))).brand

-----------------------------------------------------------------------------
(* What changes the suppression cache *)

\* the step settles handler h's authoritative lookup with a suppression reason
SuppressionObserved(h) == SesStep(h) /\ DefinitiveSuppression(hs'[h].sesReply)

\* the step settles handler h's send with a failure whose text has an indicator
RejectionObserved(h) == SendStep(h) /\ RecipientRejection(hs'[h].sendReply)

\* the step is handler h's local lookup finding a record older than the TTL
ExpiredRecordEvicted(h) ==
    /\ GateStep(h)
    /\ AgeClass(MapGet(suppressed, hs'[h].to.s), now) = "old"
    /\ suppressed' = MapDelete(suppressed, hs'[h].to.s)

\* a send that succeeds, or fails with a text that has no indicator, leaves the
\* cache as it is
OtherSendOutcomesKeepCache ==
    \A h \in Handlers :
        (SendStep(h) /\ ~RecipientRejection(hs'[h].sendReply)) => suppressed' = suppressed

\* C36 as stated: the cache changes only on a definitive suppression response or
\* on a send failure whose text has a rejection indicator; a successful send and a
\* send failure without an indicator leave it unchanged.
C36_CacheChangesOnlyOnSuppressionOrRejection ==
    [][/\ suppressed' # suppressed =>
            \E h \in Handlers : SuppressionObserved(h) \/ RejectionObserved(h)
       /\ OtherSendOutcomesKeepCache]_vars

\* C36: the cache changes only on a definitive suppression response, on a send
\* failure whose text has a rejection indicator, or when a lookup evicts a record
\* older than the TTL; a successful send and a send failure without an indicator
\* leave it unchanged.
C36_CacheChangesOnlyOnSuppressionRejectionOrEviction ==
    [][/\ suppressed' # suppressed =>
            \E h \in Handlers :
                SuppressionObserved(h) \/ RejectionObserved(h) \/ ExpiredRecordEvicted(h)
       /\ OtherSendOutcomesKeepCache]_vars

\* a send has failed with a text without an indicator while the cache holds a
\* record
C36_Witness ==
    /\ suppressed # EmptyMap
    /\ \E h \in Handlers :
          /\ pc[h] = "done"
          /\ hs[h].sendReply # NullV
          /\ hs[h].sendReply.k = "throw"
          /\ ~RecipientRejection(hs[h].sendReply)

-----------------------------------------------------------------------------
(* Events of other kinds *)

\* handler h holds an authenticated event of a kind the handler does not act on
Unhandled(h) == Authenticated(h) /\ Events[ev[h]].type \notin HandledTypes

\* C37: an authenticated event of a kind that is not handled is acknowledged with
\* received:true at once and has no side effect: no call is made for it (no
\* recipient resolution, no suppression lookup, no template fetch, no send) and
\* the step that takes it in changes neither the suppression cache nor the
\* template cache.
C37_UnhandledKindIsAcknowledgedOnly ==
    /\ [](\A h \in Handlers :
            Unhandled(h) =>
                /\ pc[h] = "done"
                /\ resp[h] = Json([received |-> TRUE])
                /\ log[h] = <<>>
                /\ hs[h] = Fresh)
    /\ [][\A h \in Handlers :
            (nEvents' # nEvents /\ ev'[h] # 0 /\ Events[ev'[h]].type \notin HandledTypes)
                => UNCHANGED <<suppressed, ret>>]_vars

\* an event of another kind has been acknowledged while the cache holds a record
C37_Witness ==
    /\ suppressed # EmptyMap
    /\ \E h \in Handlers :
          /\ Unhandled(h)
          /\ Events[ev[h]].type = "customer.created"
          /\ resp[h] = Json([received |-> TRUE])

-----------------------------------------------------------------------------
(* Template cache contents under concurrent lookups *)

\* C38: whatever the interleaving of lookups, every entry of the template cache
\* maps a path to a whole content that the store returned for that very path.
C38_CacheEntryIsStoreContentOfItsPath ==
    CacheRun =>
        \A k \in DOMAIN ret.tplCache :
            /\ k \in {TemplateKey(a) : a \in TemplateArgs}
            /\ ret.tplCache[k] \in StoreContents(k)

\* two tasks have started a download of the same path at once: one has cached
\* its text, the other is still in its download
C38_Witness ==
    /\ CacheRun
    /\ ret.task["t1"].via = "fetch" /\ ret.task["t1"].pc = "returned"
    /\ ret.task["t2"].via = "fetch" /\ ret.task["t2"].pc = "fetching"
    /\ ret.task["t1"].key = ret.task["t2"].key
    /\ ret.task["t1"].key \in DOMAIN ret.tplCache

\* a path filled twice at once holds the text of the download that settled last
C38_RacingFillsWitness ==
    /\ CacheRun
    /\ ret.task["t1"].via = "fetch" /\ ret.task["t1"].pc = "returned"
    /\ ret.task["t2"].via = "fetch" /\ ret.task["t2"].pc = "returned"
    /\ ret.task["t1"].key = ret.task["t2"].key
    /\ ret.task["t1"].result # NullV /\ ret.task["t2"].result # NullV
    /\ ret.task["t1"].result # ret.task["t2"].result
    /\ ret.task["t1"].n = 1 /\ ret.task["t2"].n = 1

====
